---- MODULE Spec2Model ----
(***************************************************************************)
(* A model of the request-dispatch layer of webtools-expressapi: the        *)
(* Router registry (addRoute, use, mountRouter), the HttpServer dispatcher  *)
(* (requestListener and its helpers), StringHelper.normalizePath and the    *)
(* schema validators the dispatcher calls.                                  *)
(*                                                                          *)
(* Strings of the program are sequences of one-character strings, so that   *)
(* the character-level operations of the code (regular-expression           *)
(* replacement, split, slice, startsWith) are modelled by what they do.     *)
(***************************************************************************)
EXTENDS Integers, Sequences, FiniteSets, TLC

VARIABLES
    routers,        \* router id -> [prefix, routes, middlewares]
    notFoundHandler,\* HttpServer.notFoundHandler: "default" or "custom"
    listening,      \* HttpServer.listen() has been called
    lastCall,       \* the last registration-time call, its arguments and whether it threw
    mountLog,       \* history: what each mount call copied, and from what
    last,           \* the last dispatch: its request, callbacks' behaviour and outcome
    mPattern,       \* path matcher on its own: the route url
    mPath,          \* path matcher on its own: the normalized request path
    mParams,        \* path matcher on its own: extractRouteParams' result
    mPc,            \* path matcher on its own: "idle", "input", "matched" or "rejected"
    inFlight        \* dispatch id -> a call of requestListener between two of its awaits

vars == <<routers, notFoundHandler, listening, lastCall, mountLog, last,
          mPattern, mPath, mParams, mPc, inFlight>>

serverVars == <<routers, notFoundHandler, listening, lastCall, mountLog, last>>
matchVars == <<mPattern, mPath, mParams, mPc>>

-----------------------------------------------------------------------------
(* Bounds of the model.                                                     *)

\* The most segments of a route url and of a request path given to the
\* path matcher taken alone.
MaxSegments == 2
\* The most routes one router holds and the most middlewares one router uses.
MaxRoutes == 2
MaxMiddlewares == 2
\* The longest request path as the client spells it.
MaxRawLen == 5
\* The most calls of requestListener in flight at once.
MaxInFlight == 2

-----------------------------------------------------------------------------
(* Strings.                                                                 *)

SLASH == "/"
COLON == ":"
DOT == "."

\* All strings of at most n characters of the given ones.
StrsOver(chars, n) == UNION {[1..k -> chars] : k \in 0..n}

\* Array.prototype.join(sep) on an array of strings.
RECURSIVE Join(_, _)
Join(parts, sep) ==
    IF parts = <<>> THEN <<>>
    ELSE IF Len(parts) = 1 THEN parts[1]
    ELSE parts[1] \o sep \o Join(Tail(parts), sep)

\* String.prototype.split("/"): the pieces between the separators; always at
\* least one piece, possibly empty.
RECURSIVE SplitFrom(_, _, _)
SplitFrom(s, i, cur) ==
    IF i > Len(s) THEN <<cur>>
    ELSE IF s[i] = SLASH THEN <<cur>> \o SplitFrom(s, i + 1, <<>>)
    ELSE SplitFrom(s, i + 1, Append(cur, s[i]))

Split(s) == SplitFrom(s, 1, <<>>)

\* String.prototype.slice(1).
Slice1(s) == IF s = <<>> THEN <<>> ELSE Tail(s)

\* String.prototype.startsWith(":").
StartsWithColon(s) == s # <<>> /\ s[1] = COLON

\* .replace(/\/+/, "/") without the g flag, on a string that begins with a
\* slash: only the first run of slashes becomes one slash.
RECURSIVE CollapseFirstRun(_)
CollapseFirstRun(s) ==
    IF Len(s) >= 2 /\ s[1] = SLASH /\ s[2] = SLASH THEN CollapseFirstRun(Tail(s)) ELSE s

\* .replace(/\/+/g, "/"): every run of slashes becomes one slash.
RECURSIVE CollapseSlashes(_)
CollapseSlashes(s) ==
    IF Len(s) < 2 THEN s
    ELSE IF s[1] = SLASH /\ s[2] = SLASH THEN CollapseSlashes(Tail(s))
    ELSE <<s[1]>> \o CollapseSlashes(Tail(s))

\* .replace(/^\/|\/$/g, ""): one leading and one trailing slash are removed.
StripEnds(s) ==
    LET a == IF s # <<>> /\ s[1] = SLASH THEN Tail(s) ELSE s
    IN  IF a # <<>> /\ a[Len(a)] = SLASH THEN SubSeq(a, 1, Len(a) - 1) ELSE a

\* StringHelper.normalizePath(...parts).
normalizePath(parts) ==
    <<SLASH>> \o StripEnds(CollapseSlashes(Join(parts, <<SLASH>>)))

-----------------------------------------------------------------------------
(* The path matcher: HttpServer.findMatchingRoute's regular expression and  *)
(* HttpServer.extractRouteParams.                                           *)

\* The number of characters of s, from position i on, up to the next slash.
RECURSIVE RunLen(_, _)
RunLen(s, i) ==
    IF i > Len(s) \/ s[i] = SLASH THEN 0 ELSE 1 + RunLen(s, i + 1)

\* route.url.replace(/:[^\/]+/g, "([^/]+)") read as a regular expression: a
\* colon followed by at least one non-slash character, with all the
\* non-slash characters after it, becomes the group [^/]+ ("seg"); of the
\* remaining characters, "." matches any character ("any") and the others
\* match themselves ("lit").
RECURSIVE RouteRegexFrom(_, _)
RouteRegexFrom(url, i) ==
    IF i > Len(url) THEN <<>>
    ELSE IF url[i] = COLON /\ RunLen(url, i + 1) > 0
         THEN <<[k |-> "seg"]>> \o RouteRegexFrom(url, i + 1 + RunLen(url, i + 1))
    ELSE IF url[i] = DOT
         THEN <<[k |-> "any"]>> \o RouteRegexFrom(url, i + 1)
    ELSE <<[k |-> "lit", c |-> url[i]]>> \o RouteRegexFrom(url, i + 1)

RouteRegex(url) == RouteRegexFrom(url, 1)

\* new RegExp(`^${pattern}$`).test(s), by backtracking over the tokens.
RECURSIVE RegexTest(_, _)
RegexTest(tokens, s) ==
    IF tokens = <<>> THEN s = <<>>
    ELSE LET t == tokens[1] IN
         IF t.k = "lit"
         THEN s # <<>> /\ s[1] = t.c /\ RegexTest(Tail(tokens), Tail(s))
         ELSE IF t.k = "any"
         THEN s # <<>> /\ RegexTest(Tail(tokens), Tail(s))
         ELSE \E n \in 1..Len(s) :
                /\ \A j \in 1..n : s[j] # SLASH
                /\ RegexTest(Tail(tokens), SubSeq(s, n + 1, Len(s)))

\* The predicate of routes.find(...) in findMatchingRoute.
RouteMatches(url, pathname) == RegexTest(RouteRegex(url), pathname)

\* The part is taken one place too early.
PartOrBefore(urlParts, i) == IF i > 1 /\ i - 1 <= Len(urlParts) THEN urlParts[i - 1] ELSE <<>>

\* urlParts[i] || "" where i is a 0-based index of routeParts.
PartOr(urlParts, i) == IF i <= Len(urlParts) THEN urlParts[i] ELSE <<>>

\* The loop of extractRouteParams: params[paramName] = urlParts[i] || "" for
\* each routeParts[i] that starts with ":", in index order (a later
\* assignment to the same name overwrites the earlier one).
RECURSIVE ExtractLoop(_, _, _, _)
ExtractLoop(urlParts, routeParts, i, params) ==
    IF i > Len(routeParts) THEN params
    ELSE IF StartsWithColon(routeParts[i])
         THEN LET paramName == Slice1(routeParts[i])
                  others == DOMAIN params \ {paramName}
              IN  ExtractLoop(urlParts, routeParts, i + 1,
                      [n \in others \cup {paramName} |->
                          IF n = paramName THEN PartOr(urlParts, i) ELSE params[n]])
    ELSE ExtractLoop(urlParts, routeParts, i + 1, params)

\* The empty Record<string, string>.
EmptyRecord == [n \in {} |-> <<>>]

\* HttpServer.extractRouteParams(url, routeUrl).
extractRouteParams(url, routeUrl) ==
    ExtractLoop(Split(Slice1(url)), Split(Slice1(routeUrl)), 1, EmptyRecord)

-----------------------------------------------------------------------------
(* Values of the host language, as far as requests carry them.              *)

VUndefined == [t |-> "undefined"]
VNull == [t |-> "null"]
VString(s) == [t |-> "string", s |-> s]
VNumber(n) == [t |-> "number", n |-> n]
VBoolean(b) == [t |-> "boolean", b |-> b]
\* A plain object: a function from its own keys (strings) to values.
VObject(o) == [t |-> "object", o |-> o]
\* An array: the sequence of its elements.
VArray(items) == [t |-> "array", items |-> items]
\* Object.create(null): an object with no own key and no prototype, hence
\* with no toString or valueOf to convert it to a primitive.
VNullProto == [t |-> "nullproto", o |-> <<>>]
\* The TypeError of a conversion to a primitive that cannot be done.
TypeError == [name |-> "TypeError", message |-> "Cannot convert object to primitive value"]

\* The text a template or a fixed message consists of is kept as one atom;
\* strings the code takes apart are character sequences.
Digits == <<"0", "1", "2", "3", "4", "5", "6", "7", "8", "9">>

RECURSIVE NatToStr(_)
NatToStr(n) ==
    IF n < 10 THEN <<Digits[n + 1]>>
    ELSE NatToStr(n \div 10) \o <<Digits[(n % 10) + 1]>>

KeyToString == <<"t", "o", "S", "t", "r", "i", "n", "g">>

\* Whether String(data) returns: an object without toString makes it throw
\* a TypeError, also as an element of an array being joined (null and
\* undefined elements are joined as the empty string, unconverted).  The
\* values of the model hold no function, so an object with an own toString
\* property, as JSON.parse makes of {"toString": null}, has none to call.
RECURSIVE Convertible(_)
Convertible(v) ==
    CASE v.t = "nullproto" -> FALSE
      [] v.t = "object" -> KeyToString \notin DOMAIN v.o
      [] v.t = "array" -> \A i \in 1..Len(v.items) : Convertible(v.items[i])
      [] OTHER -> TRUE

RECURSIVE StringOf(_)
RECURSIVE JoinComma(_, _)

\* Array.prototype.join(",") from element i on.
JoinComma(items, i) ==
    IF i > Len(items) THEN <<>>
    ELSE (IF items[i].t \in {"null", "undefined"} THEN <<>> ELSE StringOf(items[i]))
         \o (IF i < Len(items) THEN <<",">> ELSE <<>>)
         \o JoinComma(items, i + 1)

\* String(data), for a data that can be converted.
StringOf(v) ==
    CASE v.t = "string" -> v.s
      [] v.t = "number" -> IF v.n < 0 THEN <<"-">> \o NatToStr(-v.n) ELSE NatToStr(v.n)
      [] v.t = "boolean" -> IF v.b THEN <<"t", "r", "u", "e">>
                            ELSE <<"f", "a", "l", "s", "e">>
      [] v.t = "undefined" -> <<"u", "n", "d", "e", "f", "i", "n", "e", "d">>
      [] v.t = "null" -> <<"n", "u", "l", "l">>
      [] v.t = "object" ->
            <<"[", "o", "b", "j", "e", "c", "t", " ", "O", "b", "j", "e", "c", "t", "]">>
      [] v.t = "array" -> JoinComma(v.items, 1)

\* A number that is not an integer, kept as its tenths; an integer n is
\* VNumber(n).
NumberOfTenths(k) ==
    IF k % 10 = 0 THEN VNumber(k \div 10) ELSE [t |-> "number", tenths |-> k]
NaN == [nan |-> TRUE]
Num(k) == [nan |-> FALSE, tenths |-> k]

IsDigits(s) == \A i \in 1..Len(s) : \E d \in 1..10 : Digits[d] = s[i]
DigitValue(c) == (CHOOSE d \in 1..10 : Digits[d] = c) - 1

RECURSIVE DigitsValue(_)
DigitsValue(s) ==
    IF s = <<>> THEN 0 ELSE 10 * DigitsValue(SubSeq(s, 1, Len(s) - 1)) + DigitValue(s[Len(s)])

\* The places of the decimal point in s.
Dots(s) == { i \in 1..Len(s) : s[i] = DOT }

\* An unsigned decimal literal as a number, in tenths: digits, with at most
\* one point; the literals of this model have at most one digit after it.
UnsignedToNumber(s) ==
    CASE Dots(s) = {} -> IF s # <<>> /\ IsDigits(s) THEN Num(10 * DigitsValue(s)) ELSE NaN
      [] Cardinality(Dots(s)) > 1 -> NaN
      [] Dots(s) = {Len(s)} ->
            IF Len(s) > 1 /\ IsDigits(SubSeq(s, 1, Len(s) - 1))
            THEN Num(10 * DigitsValue(SubSeq(s, 1, Len(s) - 1))) ELSE NaN
      [] Dots(s) = {Len(s) - 1} ->
            IF IsDigits(SubSeq(s, 1, Len(s) - 2)) /\ IsDigits(<<s[Len(s)]>>)
            THEN Num(10 * DigitsValue(SubSeq(s, 1, Len(s) - 2)) + DigitValue(s[Len(s)]))
            ELSE NaN

Negated(x) == IF x.nan THEN x ELSE Num(-x.tenths)

\* Number(s) for a string without white space: "" is 0, a decimal literal
\* with an optional sign is its value, anything else is NaN.
StringToNumber(s) ==
    IF s = <<>> THEN Num(0)
    ELSE IF s[1] = "-" THEN Negated(UnsignedToNumber(Tail(s)))
    ELSE IF s[1] = "+" THEN UnsignedToNumber(Tail(s))
    ELSE UnsignedToNumber(s)

\* Number(data) for a data that can be converted: an object or an array
\* goes through its string.
ToNumber(v) ==
    CASE v.t = "number" -> IF "tenths" \in DOMAIN v THEN Num(v.tenths) ELSE Num(10 * v.n)
      [] v.t = "string" -> StringToNumber(v.s)
      [] v.t = "boolean" -> IF v.b THEN Num(10) ELSE Num(0)
      [] v.t = "null" -> Num(0)
      [] v.t = "undefined" -> NaN
      [] v.t = "object" -> NaN
      [] v.t = "array" -> StringToNumber(StringOf(v))

\* typeof data.
TypeOf(v) == IF v.t \in {"null", "array", "nullproto"} THEN "object" ELSE v.t

\* The truth value of data in a condition: "", 0, false, null and undefined
\* are falsy, every object and array is truthy.
Truthy(v) ==
    CASE v.t = "string" -> v.s # <<>>
      [] v.t = "number" -> v.n # 0
      [] v.t = "boolean" -> v.b
      [] v.t \in {"null", "undefined"} -> FALSE
      [] OTHER -> TRUE

\* Array.isArray(data).
IsArray(v) == v.t = "array"

\* (data as Record<string, unknown>)[key].
GetProp(v, key) == IF key \in DOMAIN v.o THEN v.o[key] ELSE VUndefined

\* Object.assign(target, source) on plain objects: the source's own keys
\* are written over the target's; the target's other keys stay.
ObjectAssign(target, source) ==
    [n \in DOMAIN target \cup DOMAIN source |->
        IF n \in DOMAIN source THEN source[n] ELSE target[n]]

\* String.prototype.startsWith / endsWith.
StartsWith(s, prefix) ==
    Len(prefix) <= Len(s) /\ SubSeq(s, 1, Len(prefix)) = prefix
EndsWith(s, suffix) ==
    Len(suffix) <= Len(s) /\ SubSeq(s, Len(s) - Len(suffix) + 1, Len(s)) = suffix

-----------------------------------------------------------------------------
(* Schemas.  A schema is a record with its kind and its constraint state;   *)
(* an optional constraint is <<>> when unset and <<c>> when set, as a       *)
(* field of the class is undefined or an object.                            *)

SetC(c) == c # <<>>

\* z.string() and its builder methods (the regex, email, uuid and url
\* constraints are not used by the schemas of this model).
StringSchema ==
    [kind |-> "string", minLength |-> <<>>, maxLength |-> <<>>, exactLength |-> <<>>,
     startsWithConstraint |-> <<>>, endsWithConstraint |-> <<>>]
StrMin(s, n) ==
    [s EXCEPT !.minLength =
        <<[value |-> n, message |-> [text |-> "String must be at least ${length} characters", length |-> n]]>>]
StrMax(s, n) ==
    [s EXCEPT !.maxLength =
        <<[value |-> n, message |-> [text |-> "String must be at most ${length} characters", length |-> n]]>>]
StrLength(s, n) ==
    [s EXCEPT !.exactLength =
        <<[value |-> n, message |-> [text |-> "String must be exactly ${length} characters", length |-> n]]>>]
StrStartsWith(s, p) ==
    [s EXCEPT !.startsWithConstraint =
        <<[prefix |-> p, message |-> [text |-> "String must start with \"${prefix}\"", prefix |-> p]]>>]
StrEndsWith(s, p) ==
    [s EXCEPT !.endsWithConstraint =
        <<[suffix |-> p, message |-> [text |-> "String must end with \"${suffix}\"", suffix |-> p]]>>]

\* z.number() and its builder methods.
NumberSchema ==
    [kind |-> "number", minValue |-> <<>>, maxValue |-> <<>>,
     isInt |-> <<>>, isPositive |-> <<>>, isNegative |-> <<>>]
NumMin(s, n) ==
    [s EXCEPT !.minValue =
        <<[value |-> n, message |-> [text |-> "Number must be at least ${value}", value |-> n]]>>]
NumMax(s, n) ==
    [s EXCEPT !.maxValue =
        <<[value |-> n, message |-> [text |-> "Number must be at most ${value}", value |-> n]]>>]
NumInt(s) == [s EXCEPT !.isInt = <<"Expected integer, got float">>]
NumPositive(s) == [s EXCEPT !.isPositive = <<"Number must be positive">>]
NumNegative(s) == [s EXCEPT !.isNegative = <<"Number must be negative">>]

\* z.boolean().
BooleanSchema == [kind |-> "boolean"]

\* z.enum(values): the declared values in order.
EnumSchema(values) == [kind |-> "enum", values |-> values]

\* z.any().
AnySchema == [kind |-> "any"]

\* z.object(shape): the shape's entries in insertion order.
ObjectSchema(shape) == [kind |-> "object", shape |-> shape]
Field(key, schema) == [key |-> key, schema |-> schema]

\* z.optional(schema).
OptionalSchema(schema) == [kind |-> "optional", schema |-> schema]

\* z.nullable(schema).
NullableSchema(schema) == [kind |-> "nullable", schema |-> schema]

\* z.array(itemSchema) and its builder methods.
ArraySchema(itemSchema) ==
    [kind |-> "array", itemSchema |-> itemSchema,
     minLength |-> <<>>, maxLength |-> <<>>, exactLength |-> <<>>]
ArrMin(s, n) ==
    [s EXCEPT !.minLength =
        <<[value |-> n, message |-> [text |-> "Array must have at least ${length} items", length |-> n]]>>]
ArrMax(s, n) ==
    [s EXCEPT !.maxLength =
        <<[value |-> n, message |-> [text |-> "Array must have at most ${length} items", length |-> n]]>>]
ArrLength(s, n) ==
    [s EXCEPT !.exactLength =
        <<[value |-> n, message |-> [text |-> "Array must have exactly ${length} items", length |-> n]]>>]

\* z.union(schemas): the member schemas in order.
UnionSchema(schemas) == [kind |-> "union", schemas |-> schemas]

\* BaseSchema.createError(path, message, code): a ValidationError of one issue.
createError(path, message, code) ==
    <<[path |-> path, message |-> message, code |-> code]>>

\* The outcome of parse: the value returned, the issues of the
\* ValidationError thrown, or the other error thrown.
Returned(v) == [ok |-> TRUE, data |-> v]
Thrown(issues) == [ok |-> FALSE, issues |-> issues]
Failed(error) == [ok |-> FALSE, failure |-> error]

\* error instanceof ValidationError, for the outcome of a parse that threw.
IsValidationError(r) == "issues" \in DOMAIN r

\* String(error) for an Error object.
ErrorText(error) ==
    [text |-> "${name}: ${message}", name |-> error.name, message |-> error.message]

\* The checks of StringSchema.parse on str = String(data), in the order of
\* the code; the first one violated is the issue thrown.
StringChecks(schema, str) ==
    IF SetC(schema.minLength) /\ Len(str) < schema.minLength[1].value
    THEN Thrown(createError(<<>>, schema.minLength[1].message, "too_small"))
    ELSE IF SetC(schema.maxLength) /\ Len(str) > schema.maxLength[1].value
    THEN Thrown(createError(<<>>, schema.maxLength[1].message, "too_big"))
    ELSE IF SetC(schema.exactLength) /\ Len(str) # schema.exactLength[1].value
    THEN Thrown(createError(<<>>, schema.exactLength[1].message, "invalid_length"))
    ELSE IF SetC(schema.startsWithConstraint)
            /\ ~StartsWith(str, schema.startsWithConstraint[1].prefix)
    THEN Thrown(createError(<<>>, schema.startsWithConstraint[1].message, "invalid_string"))
    ELSE IF SetC(schema.endsWithConstraint)
            /\ ~EndsWith(str, schema.endsWithConstraint[1].suffix)
    THEN Thrown(createError(<<>>, schema.endsWithConstraint[1].message, "invalid_string"))
    ELSE Returned(VString(str))

\* StringSchema.parse(data): String(data), which throws a TypeError for a
\* data it cannot convert, then the checks.
StringParse(schema, data) ==
    IF Convertible(data) THEN StringChecks(schema, StringOf(data)) ELSE Failed(TypeError)

\* The segment put after each path instead of before it.
RECURSIVE SuffixIssues(_, _)
SuffixIssues(seg, issues) ==
    IF issues = <<>> THEN <<>>
    ELSE <<[path |-> issues[1].path \o <<seg>>,
            message |-> issues[1].message,
            code |-> issues[1].code]>> \o SuffixIssues(seg, Tail(issues))

\* The checks of a number schema with positive and negative moved before
\* min and max.
NumberChecksSignFirst(schema, num) ==
    IF SetC(schema.isInt) /\ num.tenths % 10 # 0
    THEN Thrown(createError(<<>>, schema.isInt[1], "invalid_type"))
    ELSE IF SetC(schema.isPositive) /\ num.tenths <= 0
    THEN Thrown(createError(<<>>, schema.isPositive[1], "too_small"))
    ELSE IF SetC(schema.isNegative) /\ num.tenths >= 0
    THEN Thrown(createError(<<>>, schema.isNegative[1], "too_big"))
    ELSE IF SetC(schema.minValue) /\ num.tenths < 10 * schema.minValue[1].value
    THEN Thrown(createError(<<>>, schema.minValue[1].message, "too_small"))
    ELSE IF SetC(schema.maxValue) /\ num.tenths > 10 * schema.maxValue[1].value
    THEN Thrown(createError(<<>>, schema.maxValue[1].message, "too_big"))
    ELSE Returned(NumberOfTenths(num.tenths))

\* The checks of NumberSchema.parse on num = Number(data), a number, in the
\* order of the code; the first one violated is the issue thrown.
NumberChecks(schema, num) ==
    IF SetC(schema.isInt) /\ num.tenths % 10 # 0
    THEN Thrown(createError(<<>>, schema.isInt[1], "invalid_type"))
    ELSE IF SetC(schema.minValue) /\ num.tenths < 10 * schema.minValue[1].value
    THEN Thrown(createError(<<>>, schema.minValue[1].message, "too_small"))
    ELSE IF SetC(schema.maxValue) /\ num.tenths > 10 * schema.maxValue[1].value
    THEN Thrown(createError(<<>>, schema.maxValue[1].message, "too_big"))
    ELSE IF SetC(schema.isPositive) /\ num.tenths <= 0
    THEN Thrown(createError(<<>>, schema.isPositive[1], "too_small"))
    ELSE IF SetC(schema.isNegative) /\ num.tenths >= 0
    THEN Thrown(createError(<<>>, schema.isNegative[1], "too_big"))
    ELSE Returned(NumberOfTenths(num.tenths))

\* NumberSchema.parse(data): Number(data), which throws a TypeError for a
\* data it cannot convert, then the checks.
NumberParse(schema, data) ==
    IF ~Convertible(data) THEN Failed(TypeError)
    ELSE IF ToNumber(data).nan
    THEN Thrown(createError(<<>>,
             [text |-> "Cannot convert \"${data}\" to number", data |-> StringOf(data)],
             "invalid_type"))
    ELSE NumberChecks(schema, ToNumber(data))

\* The tests of BooleanSchema.parse on str = String(data).
BooleanChecks(str) ==
    IF str \in {<<"t", "r", "u", "e">>, <<"1">>, <<"o", "n">>} THEN Returned(VBoolean(TRUE))
    ELSE IF str \in {<<"f", "a", "l", "s", "e">>, <<"0">>, <<"o", "f", "f">>}
    THEN Returned(VBoolean(FALSE))
    ELSE Thrown(createError(<<>>,
             [text |-> "Cannot convert \"${str}\" to boolean. Expected \"true\", \"false\", \"1\", or \"0\"",
              str |-> str],
             "invalid_type"))

\* BooleanSchema.parse(data).
BooleanParse(schema, data) ==
    IF Convertible(data) THEN BooleanChecks(StringOf(data)) ELSE Failed(TypeError)

\* this.values.includes(data): a primitive is found when a declared value
\* is the same primitive; an object or array given as data is a value of
\* its own and is never one of the declared ones.
Includes(values, data) ==
    /\ data.t \in {"string", "number", "boolean", "null", "undefined"}
    /\ \E i \in 1..Len(values) : values[i] = data

\* EnumSchema.parse(data): the data itself when it is one of the values;
\* the message of the issue is built with String(data).
EnumParse(schema, data) ==
    IF Includes(schema.values, data) THEN Returned(data)
    ELSE IF ~Convertible(data) THEN Failed(TypeError)
    ELSE Thrown(createError(<<>>,
             [text |-> "Expected one of [${valuesStr}], got ${String(data)}",
              valuesStr |-> [i \in 1..Len(schema.values) |-> StringOf(schema.values[i])],
              data |-> StringOf(data)],
             "invalid_enum_value"))

\* issues.map(issue => ({ path: [key, ...issue.path], message, code })).
RECURSIVE PrefixIssues(_, _)
PrefixIssues(seg, issues) ==
    IF issues = <<>> THEN <<>>
    ELSE <<[path |-> <<seg>> \o issues[1].path,
            message |-> issues[1].message,
            code |-> issues[1].code]>> \o PrefixIssues(seg, Tail(issues))

RECURSIVE parse(_, _)
RECURSIVE ObjectLoop(_, _, _, _, _)
RECURSIVE ObjectStep(_, _, _, _, _, _)
RECURSIVE ArrayLoop(_, _, _, _, _)
RECURSIVE ArrayStep(_, _, _, _, _, _)
RECURSIVE UnionLoop(_, _, _)

\* What the catch block of the object and array loops appends to errors for
\* the failure r of the child at path segment seg: the child's issues under
\* seg, or one custom_error issue for an error that is no ValidationError.
CaughtIssues(seg, r) ==
    IF IsValidationError(r) THEN PrefixIssues(seg, r.issues)
    ELSE <<[path |-> <<seg>>, message |-> ErrorText(r.failure), code |-> "custom_error"]>>

\* A loop that gives up at the first failing key.
ObjectStepFirstFailure(shape, data, i, result, errors, r) ==
    IF r.ok
    THEN ObjectLoop(shape, data, i + 1,
             ObjectAssign(result, [n \in {shape[i].key} |-> r.data]), errors)
    ELSE Thrown(CaughtIssues(VString(shape[i].key), r))

\* The loop of ObjectSchema.parse over Object.entries(this.shape): every
\* key's schema is run, a success is stored in result and a failure's
\* issues are appended to errors with the key put before each path.
ObjectLoop(shape, data, i, result, errors) ==
    IF i > Len(shape)
    THEN IF Len(errors) > 0 THEN Thrown(errors) ELSE Returned(VObject(result))
    ELSE ObjectStep(shape, data, i, result, errors,
             parse(shape[i].schema, GetProp(data, shape[i].key)))

\* One turn of the loop, r being what the key's schema.parse did.
ObjectStep(shape, data, i, result, errors, r) ==
    IF r.ok
    THEN ObjectLoop(shape, data, i + 1,
             ObjectAssign(result, [n \in {shape[i].key} |-> r.data]), errors)
    ELSE ObjectLoop(shape, data, i + 1, result,
             errors \o CaughtIssues(VString(shape[i].key), r))

\* ObjectSchema.parse(data).
ObjectParse(schema, data) ==
    IF TypeOf(data) # "object" \/ data = VNull \/ IsArray(data)
    THEN Thrown(createError(<<>>,
             [text |-> "Expected object, got ${typeof data}", type |-> TypeOf(data)],
             "invalid_type"))
    ELSE ObjectLoop(schema.shape, data, 1, [n \in {} |-> VUndefined], <<>>)

\* OptionalSchema.parse(data): a function body that ends without a return
\* yields undefined.
OptionalParse(schema, data) ==
    IF data # VUndefined THEN parse(schema.schema, data) ELSE Returned(VUndefined)

\* The loop of ArraySchema.parse over the elements: every element is run
\* through itemSchema, a success is pushed on result and a failure's issues
\* are appended to errors with the index put before each path.
ArrayLoop(itemSchema, items, i, result, errors) ==
    IF i > Len(items)
    THEN IF Len(errors) > 0 THEN Thrown(errors) ELSE Returned(VArray(result))
    ELSE ArrayStep(itemSchema, items, i, result, errors, parse(itemSchema, items[i]))

\* One turn of the loop, r being what itemSchema.parse did; the code's
\* index is i - 1.
ArrayStep(itemSchema, items, i, result, errors, r) ==
    IF r.ok
    THEN ArrayLoop(itemSchema, items, i + 1, Append(result, r.data), errors)
    ELSE ArrayLoop(itemSchema, items, i + 1, result,
             errors \o CaughtIssues(VNumber(i - 1), r))

\* The length checks of ArraySchema.parse, then the loop.
ArrayChecks(schema, items) ==
    IF SetC(schema.minLength) /\ Len(items) < schema.minLength[1].value
    THEN Thrown(createError(<<>>, schema.minLength[1].message, "too_small"))
    ELSE IF SetC(schema.maxLength) /\ Len(items) > schema.maxLength[1].value
    THEN Thrown(createError(<<>>, schema.maxLength[1].message, "too_big"))
    ELSE IF SetC(schema.exactLength) /\ Len(items) # schema.exactLength[1].value
    THEN Thrown(createError(<<>>, schema.exactLength[1].message, "invalid_length"))
    ELSE ArrayLoop(schema.itemSchema, items, 1, <<>>, <<>>)

\* ArraySchema.parse(data).
ArrayParse(schema, data) ==
    IF ~IsArray(data)
    THEN Thrown(createError(<<>>,
             [text |-> "Expected array, got ${typeof data}", type |-> TypeOf(data)],
             "invalid_type"))
    ELSE ArrayChecks(schema, data.items)

\* A union that goes on after a member has returned and lets the last
\* member that returns decide.
UnionStepLast(schemas, data, i, r) ==
    IF r.ok /\ ~UnionLoop(schemas, data, i + 1).ok THEN r
    ELSE UnionLoop(schemas, data, i + 1)

\* One member of the union tried, r being what its parse did: its value is
\* returned, and whatever it threw is dropped by the empty catch.
UnionStep(schemas, data, i, r) ==
    IF r.ok THEN r ELSE UnionLoop(schemas, data, i + 1)

\* The loop of UnionSchema.parse from member i on, and the error thrown
\* when no member returned.
UnionLoop(schemas, data, i) ==
    IF i > Len(schemas)
    THEN Thrown(createError(<<>>, "Value does not match any of the expected types",
             "invalid_union"))
    ELSE UnionStep(schemas, data, i, parse(schemas[i], data))

\* UnionSchema.parse(data).
UnionParse(schema, data) == UnionLoop(schema.schemas, data, 1)

\* A nullable that gives null for null and undefined only.
NullableParseNullish(schema, data) ==
    IF data \in {VNull, VUndefined} THEN Returned(VNull) ELSE parse(schema.schema, data)

\* NullableSchema.parse(data): data ? this.schema.parse(data) : null.
NullableParse(schema, data) ==
    IF Truthy(data) THEN parse(schema.schema, data) ELSE Returned(VNull)

\* Schema.parse(data), by the class of the schema.
parse(schema, data) ==
    CASE schema.kind = "string" -> StringParse(schema, data)
      [] schema.kind = "any" -> Returned(data)
      [] schema.kind = "object" -> ObjectParse(schema, data)
      [] schema.kind = "optional" -> OptionalParse(schema, data)
      [] schema.kind = "array" -> ArrayParse(schema, data)
      [] schema.kind = "union" -> UnionParse(schema, data)
      [] schema.kind = "nullable" -> NullableParse(schema, data)
      [] schema.kind = "number" -> NumberParse(schema, data)
      [] schema.kind = "boolean" -> BooleanParse(schema, data)
      [] schema.kind = "enum" -> EnumParse(schema, data)

\* What a call that ends by throwing an error other than a ValidationError
\* leaves its caller with: no result, the error.
Propagated(error) == [thrown |-> error]

\* A catch that makes a failure result of every error.
CapturedEvery(r) ==
    IF r.ok THEN [success |-> TRUE, data |-> r.data]
    ELSE [success |-> FALSE,
          error |-> IF IsValidationError(r) THEN [issues |-> r.issues] ELSE r.failure]

\* The try/catch of safeParse around what parse did: a ValidationError
\* becomes a failure result and any other error is thrown again.
Captured(r) ==
    IF r.ok THEN [success |-> TRUE, data |-> r.data]
    ELSE IF IsValidationError(r) THEN [success |-> FALSE, error |-> [issues |-> r.issues]]
    ELSE Propagated(r.failure)

\* BaseSchema.safeParse(data): parse with a ValidationError captured.
safeParse(schema, data) == Captured(parse(schema, data))

-----------------------------------------------------------------------------
(* The Router registry.                                                     *)

\* Object.values(HttpMethods), in declaration order: the insertion order of
\* the routes map.
HttpMethods == <<"GET", "POST", "PUT", "PATCH", "DELETE">>
HttpMethodSet == {HttpMethods[i] : i \in 1..Len(HttpMethods)}

\* new Router(prefix): every method has an empty list; no middleware.
NewRouter(prefix) ==
    [prefix |-> prefix,
     routes |-> [m \in HttpMethodSet |-> <<>>],
     middlewares |-> <<>>]

\* A Route object.  schemas is <<>> (undefined) or <<[query, params, body]>>,
\* each of the three <<>> or <<schema>>.
Route(method, url, requestListener, middlewares, schemas) ==
    [url |-> url, method |-> method, middlewares |-> middlewares,
     requestListener |-> requestListener, schemas |-> schemas]

NoSchemas == <<>>
Schemas(query, params, body) == <<[query |-> query, params |-> params, body |-> body]>>

\* routes.some((r) => r.url === prefixedUrl).
SomeRouteHasUrl(routes, prefixedUrl) ==
    \E i \in 1..Len(routes) : routes[i].url = prefixedUrl

\* addRoute pushing the route before the duplicate check throws.
AddPrefixedPushFirst(router, route, prefixedUrl) ==
    [threw |-> SomeRouteHasUrl(router.routes[route.method], prefixedUrl),
     router |-> [router EXCEPT !.routes[route.method] =
                    Append(@, [route EXCEPT !.url = prefixedUrl])]]

\* addRoute once prefixedUrl is computed: the duplicate check, then the push.
AddPrefixed(router, route, prefixedUrl) ==
    IF SomeRouteHasUrl(router.routes[route.method], prefixedUrl)
    THEN [threw |-> TRUE, router |-> router]
    ELSE [threw |-> FALSE,
          router |-> [router EXCEPT !.routes[route.method] =
                         Append(@, [route EXCEPT !.url = prefixedUrl])]]

\* addRoute storing the joined url as it is, not normalized.
addRouteJoined(router, route) ==
    AddPrefixed(router, route, Join(<<router.prefix, route.url>>, <<"/">>))

\* Router.addRoute(route): the router after the call and whether it threw.
addRoute(router, route) ==
    AddPrefixed(router, route, normalizePath(<<router.prefix, route.url>>))

\* Router.use(middleware): this.middlewares.push(mpr).
useMiddleware(router, middleware) ==
    [router EXCEPT !.middlewares = Append(@, middleware)]

\* router.routes.values() flattened: the routes in the order the two loops
\* of mountRouter visit them.
RECURSIVE RoutesFrom(_, _)
RoutesFrom(router, k) ==
    IF k > Len(HttpMethods) THEN <<>>
    ELSE router.routes[HttpMethods[k]] \o RoutesFrom(router, k + 1)

\* The mounted router's prefix joined again to a url that already has it.
MountedRoutePrefixTwice(router, prefix, route) ==
    [route EXCEPT !.url = normalizePath(<<prefix, router.prefix, route.url>>),
                  !.middlewares = router.middlewares \o route.middlewares]

\* The route's own middlewares put before the mounted router's.
MountedRouteOwnFirst(router, prefix, route) ==
    [route EXCEPT !.url = normalizePath(<<prefix, route.url>>),
                  !.middlewares = route.middlewares \o router.middlewares]

\* The mounted router's middlewares left out of the copy.
MountedRouteOwnOnly(router, prefix, route) ==
    [route EXCEPT !.url = normalizePath(<<prefix, route.url>>)]

\* The route object mountRouter hands to addRoute.
MountedRoute(router, prefix, route) ==
    [route EXCEPT !.url = normalizePath(<<prefix, route.url>>),
                  !.middlewares = router.middlewares \o route.middlewares]

\* The loops of mountRouter: one addRoute per route of the mounted router;
\* the first addRoute that throws ends the call, and what was added before
\* it stays.  copied lists, for each route added, the route it came from
\* and the route as stored.
RECURSIVE MountLoop(_, _, _, _, _, _)
RECURSIVE MountStep(_, _, _, _, _, _, _)
MountLoop(this, router, prefix, list, i, copied) ==
    IF i > Len(list) THEN [threw |-> FALSE, router |-> this, copied |-> copied]
    ELSE MountStep(this, router, prefix, list, i, copied,
             addRoute(this, MountedRoute(router, prefix, list[i])))

\* The last route of a method's list.
LastRoute(router, method) == router.routes[method][Len(router.routes[method])]

\* One turn of the loops, r being what this.addRoute did.
MountStep(this, router, prefix, list, i, copied, r) ==
    IF r.threw
    THEN [threw |-> TRUE, router |-> this, copied |-> copied]
    ELSE MountLoop(r.router, router, prefix, list, i + 1,
             Append(copied, [from |-> list[i], to |-> LastRoute(r.router, list[i].method)]))

\* The loops run over this.routes instead of router.routes.
mountRouterOwnRoutes(this, router, prefix) ==
    MountLoop(this, router, prefix, RoutesFrom(this, 1), 1, <<>>)

\* Router.mountRouter(router, prefix), for a router other than this one.
mountRouter(this, router, prefix) ==
    MountLoop(this, router, prefix, RoutesFrom(router, 1), 1, <<>>)

\* The number of routes a router holds.
RouteCount(router) == Len(RoutesFrom(router, 1))

-----------------------------------------------------------------------------
(* The dispatcher: HttpServer.requestListener and its helpers.              *)

\* "No response": undefined, void or null returned by a callback.
Nothing == [nothing |-> TRUE]

\* The response a user callback builds when it answers: the model only tells
\* the callbacks' responses apart.
CallbackResponse(fn) == [status |-> 200, body |-> [by |-> fn]]

\* res.status(404).json({ success: false, error: "404 Not Found." }).
Response404 ==
    [status |-> 404, body |-> [success |-> FALSE, error |-> "404 Not Found."]]

\* res.status(400).json({ success: false, error, details }).
Response400(error, details) ==
    [status |-> 400, body |-> [success |-> FALSE, error |-> error, details |-> details]]

\* res.status(200).send(null).
ResponseEmpty200 == [status |-> 200, body |-> VNull]

\* What requestListener leaves its caller with when an error is thrown
\* inside it: no Response, its promise rejected with the error.
Rejected(error) == [rejected |-> error]
IsResponse(r) == "status" \in DOMAIN r

\* One entry of the record of what a dispatch executed.
Called(kind, fn, req) == [ev |-> "call", kind |-> kind, fn |-> fn, req |-> req]

\* new HttpRequest(url, method, headers, body, raw) with the query assigned.
HttpRequest(url, method, body, query) ==
    [url |-> url, method |-> method, body |-> body,
     query |-> ObjectAssign(EmptyRecord, query), params |-> EmptyRecord]

\* What a step of the pipeline did, with the record of what ran before it.
After(log, out) == [out EXCEPT !.log = log \o @]

\* executeMiddlewares with no early return: only what the last middleware
\* returns is the result.
RECURSIVE executeMiddlewaresToEnd(_, _, _, _, _)
executeMiddlewaresToEnd(middlewares, req, responders, kind, i) ==
    IF i > Len(middlewares) THEN [response |-> Nothing, log |-> <<>>, req |-> req]
    ELSE IF middlewares[i] \in responders /\ i = Len(middlewares)
         THEN [response |-> CallbackResponse(middlewares[i]),
               log |-> <<Called(kind, middlewares[i], req)>>, req |-> req]
    ELSE After(<<Called(kind, middlewares[i], req)>>,
               executeMiddlewaresToEnd(middlewares, req, responders, kind, i + 1))

\* HttpServer.executeMiddlewares: the middlewares are called in order until
\* one returns a response; null when none does.
RECURSIVE executeMiddlewares(_, _, _, _, _)
executeMiddlewares(middlewares, req, responders, kind, i) ==
    IF i > Len(middlewares) THEN [response |-> Nothing, log |-> <<>>, req |-> req]
    ELSE IF middlewares[i] \in responders
         THEN [response |-> CallbackResponse(middlewares[i]),
               log |-> <<Called(kind, middlewares[i], req)>>, req |-> req]
    ELSE After(<<Called(kind, middlewares[i], req)>>,
               executeMiddlewares(middlewares, req, responders, kind, i + 1))

\* handleNotFound answering the built-in 404 whatever the handler returns.
handleNotFoundBuiltIn(handler, req, responders) ==
    [response |-> Response404,
     log |-> <<Called("notFound", handler, req)>>, req |-> req]

\* HttpServer.handleNotFound: the not-found handler's response, or the
\* built-in 404 when it returns nothing.
handleNotFound(handler, req, responders) ==
    [response |-> IF handler = "default" THEN Response404
                  ELSE IF handler \in responders THEN CallbackResponse(handler)
                  ELSE Response404,
     log |-> <<Called("notFound", handler, req)>>, req |-> req]

\* find returning the last route that matches instead of the first.
RECURSIVE FindLastFrom(_, _, _)
FindLastFrom(routes, pathname, i) ==
    IF i > Len(routes) THEN 0
    ELSE IF FindLastFrom(routes, pathname, i + 1) # 0
         THEN FindLastFrom(routes, pathname, i + 1)
    ELSE IF RouteMatches(routes[i].url, pathname) THEN i
    ELSE 0

\* routes.find(...) of findMatchingRoute: the index of the first route whose
\* regular expression accepts the pathname, 0 when there is none.
RECURSIVE FindFrom(_, _, _)
FindFrom(routes, pathname, i) ==
    IF i > Len(routes) THEN 0
    ELSE IF RouteMatches(routes[i].url, pathname) THEN i
    ELSE FindFrom(routes, pathname, i + 1)

\* routes.find(...) || null.
RouteAt(routes, i) == IF i = 0 THEN <<>> ELSE <<routes[i]>>

\* A method without a list of routes looked up among the GET routes.
findMatchingRouteAsGet(server, method, pathname) ==
    IF method \notin DOMAIN server.routes
    THEN RouteAt(server.routes["GET"], FindFrom(server.routes["GET"], pathname, 1))
    ELSE RouteAt(server.routes[method], FindFrom(server.routes[method], pathname, 1))

\* HttpServer.findMatchingRoute(method, pathname): <<route>>, or <<>> for null.
findMatchingRoute(server, method, pathname) ==
    IF method \notin DOMAIN server.routes THEN <<>>
    ELSE RouteAt(server.routes[method], FindFrom(server.routes[method], pathname, 1))

\* The error text of the 400 response, by the section that failed.
ValidationErrorText(section) ==
    CASE section = "query" -> "400 Bad Request."
      [] section = "params" -> "Invalid route parameters"
      [] section = "body" -> "Invalid request body"

\* What a successful section does to the request: query and params are
\* merged into the existing object, the body is replaced.
ApplyValidated(req, section, data) ==
    CASE section = "query" -> [req EXCEPT !.query = ObjectAssign(@, data.o)]
      [] section = "params" -> [req EXCEPT !.params = ObjectAssign(@, data.o)]
      [] section = "body" -> [req EXCEPT !.body = data]

\* The request field a section's schema is run on.
SectionInput(req, section) ==
    CASE section = "query" -> VObject(req.query)
      [] section = "params" -> VObject(req.params)
      [] section = "body" -> req.body

\* The schemas looked at in the order body, params, query.
ValidationOrderReversed == <<"body", "params", "query">>

\* The order in which requestListener looks at the schemas of a route.
ValidationOrder == <<"query", "params", "body">>

\* The if (route.schemas) { ... } block of requestListener: each declared
\* schema is run in order; the first failure answers 400 and ends the block.
RECURSIVE validateSections(_, _, _)
RECURSIVE ValidateStep(_, _, _, _, _)
validateSections(schemas, req, k) ==
    IF k > Len(ValidationOrder) THEN [response |-> Nothing, log |-> <<>>, req |-> req]
    ELSE IF schemas[ValidationOrder[k]] = <<>> THEN validateSections(schemas, req, k + 1)
    ELSE ValidateStep(schemas, req, k, ValidationOrder[k],
             safeParse(schemas[ValidationOrder[k]][1], SectionInput(req, ValidationOrder[k])))

\* One section, result being what its schema.safeParse returned or the error
\* it threw, which nothing in requestListener catches.
ValidateStep(schemas, req, k, section, result) ==
    IF "thrown" \in DOMAIN result
    THEN [response |-> Rejected(result.thrown),
          log |-> <<[ev |-> "safeParse", section |-> section]>>,
          req |-> req]
    ELSE IF ~result.success
    THEN [response |-> Response400(ValidationErrorText(section), result.error.issues),
          log |-> <<[ev |-> "safeParse", section |-> section]>>,
          req |-> req]
    ELSE After(<<[ev |-> "safeParse", section |-> section]>>,
               validateSections(schemas, ApplyValidated(req, section, result.data), k + 1))

\* The handler's result returned as it is, without the || handleNotFound.
CallHandlerOnly(notFound, route, req, responders) ==
    [response |-> IF route.requestListener \in responders
                  THEN CallbackResponse(route.requestListener) ELSE ResponseEmpty200,
     log |-> <<Called("handler", route.requestListener, req)>>, req |-> req]

\* return await route.requestListener(req, res) || await this.handleNotFound(req, res).
CallHandler(notFound, route, req, responders) ==
    IF route.requestListener \in responders
    THEN [response |-> CallbackResponse(route.requestListener),
          log |-> <<Called("handler", route.requestListener, req)>>, req |-> req]
    ELSE After(<<Called("handler", route.requestListener, req)>>,
               handleNotFound(notFound, req, responders))

\* The handler called whatever the route's middlewares returned.
AfterRouteMiddlewaresAlways(notFound, route, req, responders, m) ==
    After(m.log, CallHandler(notFound, route, req, responders))

\* The route's middlewares having run as m says, the handler unless one of
\* them responded.
AfterRouteMiddlewares(notFound, route, req, responders, m) ==
    IF m.response # Nothing THEN m
    ELSE After(m.log, CallHandler(notFound, route, req, responders))

\* The middlewares and the handler run although a section failed; the 400
\* is returned all the same.
AfterValidationRunsOn(notFound, route, responders, v) ==
    IF v.response # Nothing
    THEN [After(v.log,
              AfterRouteMiddlewares(notFound, route, v.req, responders,
                  executeMiddlewares(route.middlewares, v.req, responders, "route", 1)))
          EXCEPT !.response = v.response]
    ELSE After(v.log,
             AfterRouteMiddlewares(notFound, route, v.req, responders,
                 executeMiddlewares(route.middlewares, v.req, responders, "route", 1)))

\* The schemas having run as v says, the route's middlewares unless a
\* section failed.
AfterValidation(notFound, route, responders, v) ==
    IF v.response # Nothing THEN v
    ELSE After(v.log,
             AfterRouteMiddlewares(notFound, route, v.req, responders,
                 executeMiddlewares(route.middlewares, v.req, responders, "route", 1)))

\* The schemas of the route run on the request with its params assigned.
ValidateRoute(route, req) ==
    IF route.schemas = <<>>
    THEN [response |-> Nothing, log |-> <<>>, req |-> req]
    ELSE validateSections(route.schemas[1], req, 1)

\* A Record<string, string> as an object of string values.
StringValues(record) == [n \in DOMAIN record |-> VString(record[n])]

\* The part of requestListener after a route was found.
dispatchRoute(notFound, route, req, responders) ==
    AfterValidation(notFound, route, responders,
        ValidateRoute(route,
            [req EXCEPT !.params = ObjectAssign(@, StringValues(extractRouteParams(req.url, route.url)))]))

\* The route looked up, found being what findMatchingRoute returned.
AfterFind(notFound, req, responders, found) ==
    After(<<[ev |-> "findMatchingRoute", found |-> found]>>,
          IF found = <<>>
          THEN handleNotFound(notFound, req, responders)
          ELSE dispatchRoute(notFound, found[1], req, responders))

\* The OPTIONS test placed after the route lookup: a miss goes to the
\* not-found handler, a hit to the route.
AfterGlobalMiddlewaresNoPreflight(server, notFound, req, responders, g) ==
    IF g.response # Nothing THEN g
    ELSE After(g.log,
             AfterFind(notFound, req, responders,
                 findMatchingRoute(server, req.method, req.url)))

\* The global middlewares having run as g says: their response, the empty
\* 200 of OPTIONS, or the route's dispatch.
AfterGlobalMiddlewares(server, notFound, req, responders, g) ==
    IF g.response # Nothing THEN g
    ELSE IF req.method = "OPTIONS"
    THEN [response |-> ResponseEmpty200, log |-> g.log, req |-> req]
    ELSE After(g.log,
             AfterFind(notFound, req, responders,
                 findMatchingRoute(server, req.method, req.url)))

\* The request built, the global middlewares are run on it.
Dispatch(server, notFound, req, responders) ==
    AfterGlobalMiddlewares(server, notFound, req, responders,
        executeMiddlewares(server.middlewares, req, responders, "global", 1))

\* HttpServer.requestListener(request): the response, the record of what was
\* executed, and the request object as the dispatch left it.  request gives
\* the method, the pathname, the query entries and the decoded body;
\* responders are the callbacks that answer when called in this dispatch.
requestListener(server, notFound, request, responders) ==
    Dispatch(server, notFound,
        HttpRequest(normalizePath(<<request.pathname>>), request.method,
            IF request.method = "GET" THEN VNull ELSE request.body, request.query),
        responders)

-----------------------------------------------------------------------------
(* The server and its routers: registration, then serving.                  *)

\* The routers of the model: the HttpServer S (a Router of prefix "/") and a
\* Router C that S mounts.
RouterIds == {"S", "C"}

Root == <<"/">>

\* Before the first dispatch.
NoDispatch == [request |-> Nothing]

\* The calls of requestListener that can be in flight at once, and a place
\* with none.
DispatchIds == 1..MaxInFlight
Idle == [pc |-> "idle"]
NoneInFlight == [d \in DispatchIds |-> Idle]

\* After construction: new HttpServer() and new Router(prefix), with the
\* prefix of C one of childPrefixes.
InitServer(childPrefixes) ==
    /\ \E p \in childPrefixes :
          routers = [r \in RouterIds |-> IF r = "S" THEN NewRouter(Root) ELSE NewRouter(p)]
    /\ notFoundHandler = "default"
    /\ listening = FALSE
    /\ lastCall = [op |-> "new"]
    /\ mountLog = {}
    /\ last = NoDispatch
    /\ inFlight = NoneInFlight

\* The path matcher taken alone has nothing to do.
MatcherIdle ==
    mPattern = Root /\ mPath = Root /\ mParams = EmptyRecord /\ mPc = "idle"

InitWith(childPrefixes) == InitServer(childPrefixes) /\ MatcherIdle

\* The effect of r.addRoute(route), res being what it did.
AddRouteDone(r, route, res) ==
    /\ routers' = [routers EXCEPT ![r] = res.router]
    /\ lastCall' = [op |-> "addRoute", router |-> r, route |-> route, threw |-> res.threw]

\* r.get(url, handler, middlewares, schemas) and the like: r.addRoute(route).
AddRoute(r, route) ==
    /\ ~listening
    /\ RouteCount(routers[r]) < MaxRoutes
    /\ AddRouteDone(r, route, addRoute(routers[r], route))
    /\ UNCHANGED <<notFoundHandler, listening, mountLog, last, matchVars, inFlight>>

\* The routes of a router with the middleware added to those a mount copied
\* into it: what is seen if the copies share the list they were made from.
WithSharedList(router, middleware) ==
    [router EXCEPT !.routes =
        [m \in DOMAIN router.routes |->
            [i \in 1..Len(router.routes[m]) |->
                IF \E e \in mountLog : e.method = m /\ e.url = router.routes[m][i].url
                THEN [router.routes[m][i] EXCEPT !.middlewares = Append(@, middleware)]
                ELSE router.routes[m][i]]]]

\* r.use(middleware) with the copies made from r sharing its list.
UseMiddlewareShared(r, middleware) ==
    /\ ~listening
    /\ Len(routers[r].middlewares) < MaxMiddlewares
    /\ routers' = [x \in RouterIds |->
                      IF x = r THEN useMiddleware(routers[x], middleware)
                      ELSE WithSharedList(routers[x], middleware)]
    /\ lastCall' = [op |-> "use", router |-> r, middleware |-> middleware]
    /\ UNCHANGED <<notFoundHandler, listening, mountLog, last, matchVars, inFlight>>

\* r.use(middleware).
UseMiddleware(r, middleware) ==
    /\ ~listening
    /\ Len(routers[r].middlewares) < MaxMiddlewares
    /\ routers' = [routers EXCEPT ![r] = useMiddleware(@, middleware)]
    /\ lastCall' = [op |-> "use", router |-> r, middleware |-> middleware]
    /\ UNCHANGED <<notFoundHandler, listening, mountLog, last, matchVars, inFlight>>

\* What one mount call copied: for each route added to p, where it is
\* stored and the three middleware lists as they stood during the call.
MountEntries(p, c, copied) ==
    { [method |-> copied[i].to.method,
       url |-> copied[i].to.url,
       requestListener |-> copied[i].to.requestListener,
       mounting |-> routers[p].middlewares,
       mounted |-> routers[c].middlewares,
       own |-> copied[i].from.middlewares] : i \in 1..Len(copied) }

\* The routes are moved: what was copied into p is taken out of c.
MountDoneMoved(p, prefix, c, res) ==
    /\ routers' = [routers EXCEPT ![p] = res.router,
                                  ![c] = IF res.copied = <<>> THEN @
                                         ELSE [NewRouter(@.prefix) EXCEPT
                                                  !.middlewares = routers[c].middlewares]]
    /\ lastCall' = [op |-> "mount", router |-> p, prefix |-> prefix, threw |-> res.threw]
    /\ mountLog' = mountLog \cup MountEntries(p, c, res.copied)

\* The effect of p.mountRouter(c, prefix), res being what it did.
MountDone(p, prefix, c, res) ==
    /\ routers' = [routers EXCEPT ![p] = res.router]
    /\ lastCall' = [op |-> "mount", router |-> p, prefix |-> prefix, threw |-> res.threw]
    /\ mountLog' = mountLog \cup MountEntries(p, c, res.copied)

\* p.use(prefix, c) and p.use(c) (prefix "/"): p.mountRouter(c, prefix).
Mount(p, prefix, c) ==
    /\ ~listening
    /\ p # c
    /\ RouteCount(routers[p]) + RouteCount(routers[c]) <= MaxRoutes
    /\ MountDone(p, prefix, c, mountRouter(routers[p], routers[c], prefix))
    /\ UNCHANGED <<notFoundHandler, listening, last, matchVars, inFlight>>

\* server.notFound(handler).
NotFound ==
    /\ ~listening
    /\ notFoundHandler = "default"
    /\ notFoundHandler' = "custom"
    /\ lastCall' = [op |-> "notFound"]
    /\ UNCHANGED <<routers, listening, mountLog, last, matchVars, inFlight>>

\* server.listen(): requests are served from here on.  The registry is
\* built before serving begins and read-only afterwards.
Listen ==
    /\ ~listening
    /\ listening' = TRUE
    /\ lastCall' = [op |-> "listen"]
    /\ UNCHANGED <<routers, notFoundHandler, mountLog, last, matchVars, inFlight>>

\* A dispatch as the model remembers it: what came in and what went out.
Served(request, responders, out) ==
    [request |-> request, responders |-> responders,
     response |-> out.response, log |-> out.log, req |-> out.req]

\* One request served by the server's requestListener, from its arrival to
\* its response.
HandleRequest(request, responders) ==
    /\ listening
    /\ last = NoDispatch
    /\ last' = Served(request, responders,
                   requestListener(routers["S"], notFoundHandler, request, responders))
    /\ UNCHANGED <<routers, notFoundHandler, listening, lastCall, mountLog, matchVars, inFlight>>

\* The response has been handed to the transport; the server waits for the
\* next request.
Respond ==
    /\ last # NoDispatch
    /\ last' = NoDispatch
    /\ UNCHANGED <<routers, notFoundHandler, listening, lastCall, mountLog, matchVars, inFlight>>

-----------------------------------------------------------------------------
(* Inputs.                                                                  *)

PathA == <<"/", "a">>
PathAId == <<"/", "a", "/", ":", "i", "d">>
PathAStatic == <<"/", "a", "/", "s", "t", "a", "t", "i", "c">>
PathAStaticRaw == <<"/", "a", "/", "/", "s", "t", "a", "t", "i", "c", "/">>
PathStatic == <<"/", "s", "t", "a", "t", "i", "c">>
PathUsers == <<"/", "u", "s", "e", "r", "s">>
PathUsersRaw == <<"/", "/", "u", "s", "e", "r", "s", "/", "/", "/">>
PathAX == <<"/", "a", "/", "x">>
KeyName == <<"n", "a", "m", "e">>
KeyId == <<"i", "d">>

Request(method, pathname, query, body) ==
    [method |-> method, pathname |-> pathname, query |-> query, body |-> body]

\* { name: s } as a decoded body.
NameBody(s) == VObject([n \in {KeyName} |-> VString(s)])

\* z.object({ name: z.string().min(3) }).
NameSchema == ObjectSchema(<<Field(KeyName, StrMin(StringSchema, 3))>>)

\* The handlers of the model's routes and the custom not-found handler.
Handlers == {"h1", "h2", "h3", "h4"}

-----------------------------------------------------------------------------
(* Spec: one server, its routes and global middlewares, then requests.      *)

RouteInputs ==
    { Route("GET", PathAId, "h1", <<>>, NoSchemas),
      Route("GET", PathAStaticRaw, "h2", <<"r1">>, NoSchemas),
      Route("GET", PathAStatic, "h3", <<"r1", "r2">>, NoSchemas),
      Route("POST", PathUsers, "h4", <<"r2">>, Schemas(<<>>, <<>>, <<NameSchema>>)) }

\* The middlewares given to use(middleware).
RouterMiddlewares == {"g1", "g2"}

Requests ==
    { Request("GET", PathAStatic, EmptyRecord, VNull),
      Request("GET", PathAX, EmptyRecord, VNull),
      Request("GET", PathUsers, EmptyRecord, VNull),
      Request("POST", PathUsersRaw, EmptyRecord, NameBody(<<"a", "b">>)),
      Request("POST", PathUsers, EmptyRecord, NameBody(<<"a", "b", "c">>)),
      Request("OPTIONS", PathAStatic, EmptyRecord, VNull) }

\* Which callbacks answer in one dispatch: a set of middlewares, with all
\* the handlers or none of them, and the custom not-found handler or not.
ResponderSets ==
    { ms \cup hs \cup nf :
        ms \in {{}, {"g1"}, {"g2"}, {"g1", "g2"}, {"r1"}, {"r2"}, {"g2", "r1", "r2"}},
        hs \in {{}, Handlers},
        nf \in {{}, {"custom"}} }

Init == InitWith({Root})

Next ==
    \/ \E route \in RouteInputs : AddRoute("S", route)
    \/ \E m \in RouterMiddlewares : UseMiddleware("S", m)
    \/ NotFound
    \/ Listen
    \/ \E request \in Requests, responders \in ResponderSets :
          HandleRequest(request, responders)
    \/ Respond

Spec == Init /\ [][Next]_vars

\* The segments of a normalized path or pattern.
Segments(url) == Split(Slice1(url))

\* A pattern matches a path structurally: as many segments, and at each
\* position a named segment against a non-empty one, or equal literals.
StructMatch(pattern, path) ==
    /\ Len(Segments(pattern)) = Len(Segments(path))
    /\ \A i \in 1..Len(Segments(pattern)) :
          IF StartsWithColon(Segments(pattern)[i]) /\ Len(Segments(pattern)[i]) > 1
          THEN Len(Segments(path)[i]) > 0
          ELSE Segments(pattern)[i] = Segments(path)[i]

\* The places of the routes of a list that match a path structurally.
StructMatches(routes, path) ==
    {i \in 1..Len(routes) : StructMatch(routes[i].url, path)}

Min(S) == CHOOSE x \in S : \A y \in S : x <= y
Max(S) == CHOOSE x \in S : \A y \in S : x >= y

\* The places of a dispatch's record where ev happened.
Events(log, ev) == {k \in 1..Len(log) : log[k].ev = ev}

\* The places of a dispatch's record where a callback of the kind ran.
Calls(log, kind) == {k \in Events(log, "call") : log[k].kind = kind}

\* C2: the route a dispatch selects is the earliest-registered route of the
\* request method's list whose pattern structurally matches the normalized
\* path, whatever more specific route follows it; its handler is the only
\* one invoked, and none is selected when no pattern matches.
C2_EarliestMatchWins ==
    last # NoDispatch =>
    \A k \in Events(last.log, "findMatchingRoute") :
        /\ IF StructMatches(routers["S"].routes[last.request.method], last.req.url) = {}
           THEN last.log[k].found = <<>>
           ELSE last.log[k].found =
                    <<routers["S"].routes[last.request.method][
                        Min(StructMatches(routers["S"].routes[last.request.method],
                                          last.req.url))]>>
        /\ \A c \in Calls(last.log, "handler") :
              last.log[k].found # <<>> /\ last.log[c].fn = last.log[k].found[1].requestListener

\* /a/:id is registered before /a/static and GET /a/static was served by the
\* handler of /a/:id with params.id = "static".
C2_Witness ==
    /\ last # NoDispatch
    /\ Len(routers["S"].routes["GET"]) = 2
    /\ routers["S"].routes["GET"][1].url = PathAId
    /\ routers["S"].routes["GET"][2].url = PathAStatic
    /\ last.request = Request("GET", PathAStatic, EmptyRecord, VNull)
    /\ last.response = CallbackResponse("h1")
    /\ \E c \in Calls(last.log, "handler") :
          /\ last.log[c].fn = "h1"
          /\ last.log[c].req.params = [n \in {KeyId} |-> VString(Slice1(PathStatic))]
    /\ \A c \in Calls(last.log, "handler") : last.log[c].fn # "h3"

\* The global middlewares of the server that answer in the last dispatch.
GlobalResponders ==
    {i \in 1..Len(routers["S"].middlewares) :
        routers["S"].middlewares[i] \in last.responders}

\* C3: the global middlewares run in registration order, and when one of
\* them returns a response it is the dispatch result and nothing else ran:
\* the record of the dispatch is the global middlewares up to that one.
C3_GlobalMiddlewareShortCircuits ==
    last # NoDispatch =>
        IF GlobalResponders = {}
        THEN /\ Len(last.log) >= Len(routers["S"].middlewares)
             /\ \A i \in 1..Len(routers["S"].middlewares) :
                   last.log[i] = Called("global", routers["S"].middlewares[i], last.log[i].req)
             /\ Calls(last.log, "global") = 1..Len(routers["S"].middlewares)
        ELSE /\ last.response = CallbackResponse(routers["S"].middlewares[Min(GlobalResponders)])
             /\ Len(last.log) = Min(GlobalResponders)
             /\ \A i \in 1..Min(GlobalResponders) :
                   last.log[i] = Called("global", routers["S"].middlewares[i], last.log[i].req)

\* Two global middlewares, the first one answers a valid POST /users for
\* which a route with a schema, a middleware and a handler is registered:
\* the record of the dispatch is the first middleware alone.
C3_Witness ==
    /\ last # NoDispatch
    /\ routers["S"].middlewares = <<"g2", "g1">>
    /\ Len(routers["S"].routes["POST"]) = 1
    /\ last.request = Request("POST", PathUsers, EmptyRecord, NameBody(<<"a", "b", "c">>))
    /\ last.responders = {"g2", "r1", "r2"} \cup Handlers
    /\ last.response = CallbackResponse("g2")
    /\ Len(last.log) = 1

-----------------------------------------------------------------------------
(* SpecRouter: registration on a server and on a router it mounts.          *)

PathX == <<"/", "x">>
PathXRaw == <<"/", "/", "x", "/">>
PathAXRaw == <<"/", "a", "/", "/", "x">>

RouterRouteInputs ==
    { Route("GET", PathX, "h1", <<>>, NoSchemas),
      Route("GET", PathXRaw, "h2", <<"r1">>, NoSchemas),
      Route("GET", PathAXRaw, "h3", <<"r2">>, NoSchemas),
      Route("POST", PathX, "h4", <<>>, NoSchemas) }

\* The prefixes given to new Router(prefix) and to use(prefix, router).
Prefixes == {Root, PathA}

InitRouter == InitWith(Prefixes)

NextRouter ==
    \/ \E r \in RouterIds, route \in RouterRouteInputs : AddRoute(r, route)
    \/ \E prefix \in Prefixes : Mount("S", prefix, "C")

SpecRouter == InitRouter /\ [][NextRouter]_vars

\* A route of the method's list already has the URL the new route would be
\* stored under.
IsDuplicate(router, route) ==
    \E i \in 1..Len(router.routes[route.method]) :
        router.routes[route.method][i].url = normalizePath(<<router.prefix, route.url>>)

\* C1: registering a route whose method and prefix-joined, normalized URL
\* equal those of a route already in that method's list throws at the call,
\* and the registry of every router is what it was before the call.
C1_DuplicateRouteThrows ==
    [][\A r \in RouterIds, route \in RouterRouteInputs :
          (AddRoute(r, route) /\ IsDuplicate(routers[r], route))
              => (lastCall'.threw /\ routers' = routers)]_vars

\* A duplicate was registered under a spelling that differs from the first
\* one, on the router of prefix /a: the call threw and the first route is
\* the only one of the router.
C1_Witness ==
    /\ lastCall.op = "addRoute"
    /\ lastCall.threw
    /\ lastCall.router = "C"
    /\ routers["C"].prefix = PathA
    /\ lastCall.route.url = PathXRaw
    /\ routers["C"].routes["GET"] = <<Route("GET", PathAX, "h1", <<>>, NoSchemas)>>
    /\ RouteCount(routers["C"]) = 1

-----------------------------------------------------------------------------
(* SpecValidate: routes with schemas for the query, the params and the      *)
(* body, and requests whose sections pass or fail them.                     *)

PathAXY == <<"/", "a", "/", "x", "y">>
KeyExtra == <<"e", "x", "t", "r", "a">>

\* z.object({ id: z.string().min(2) }).
IdSchema == ObjectSchema(<<Field(KeyId, StrMin(StringSchema, 2))>>)

ValidateRouteInputs ==
    { Route("GET", PathAId, "h1", <<"r1">>, Schemas(<<NameSchema>>, <<IdSchema>>, <<>>)),
      Route("POST", PathAId, "h2", <<"r1">>, Schemas(<<NameSchema>>, <<IdSchema>>, <<NameSchema>>)),
      Route("POST", PathUsers, "h3", <<"r2">>, Schemas(<<>>, <<>>, <<NameSchema>>)),
      Route("GET", PathUsers, "h4", <<>>, NoSchemas) }

\* { name: s, extra: "1" }.
NameAndExtra(s) ==
    VObject([n \in {KeyName, KeyExtra} |-> IF n = KeyName THEN VString(s) ELSE VString(<<"1">>)])

ValidateQueries ==
    { EmptyRecord, NameBody(<<"a", "b">>).o, NameBody(<<"a", "b", "c">>).o,
      NameAndExtra(<<"a", "b", "c">>).o }

ValidateBodies ==
    { VNull, NameBody(<<"a", "b">>), NameBody(<<"a", "b", "c">>),
      NameAndExtra(<<"a", "b", "c">>) }

ValidateRequests ==
    { Request(method, pathname, query, body) :
        method \in {"GET", "POST"}, pathname \in {PathAX, PathAXY, PathUsersRaw},
        query \in ValidateQueries, body \in ValidateBodies }

ValidateResponderSets == { {}, {"r1"}, Handlers, Handlers \cup {"r1", "r2"} }

NextValidate ==
    \/ \E route \in ValidateRouteInputs : AddRoute("S", route)
    \/ Listen
    \/ \E request \in ValidateRequests, responders \in ValidateResponderSets :
          HandleRequest(request, responders)
    \/ Respond

SpecValidate == Init /\ [][NextValidate]_vars

\* The route the last dispatch selected, <<>> when it selected none or did
\* not come to look for one.
Selected ==
    IF last = NoDispatch \/ Events(last.log, "findMatchingRoute") = {} THEN <<>>
    ELSE last.log[Min(Events(last.log, "findMatchingRoute"))].found

\* The section of the request as it arrives at the schemas of the route.
ArrivingSection(request, route, section) ==
    CASE section = "query" -> VObject(request.query)
      [] section = "params" ->
            VObject(StringValues(extractRouteParams(normalizePath(<<request.pathname>>), route.url)))
      [] section = "body" -> IF request.method = "GET" THEN VNull ELSE request.body

\* The route declares a schema for the section.
Declares(route, section) ==
    route.schemas # <<>> /\ route.schemas[1][section] # <<>>

\* What the section's schema makes of the section of the request.
SectionResult(request, route, section) ==
    safeParse(route.schemas[1][section][1], ArrivingSection(request, route, section))

\* The declared sections of the route that the request fails.
FailingSections(request, route) ==
    {section \in {"query", "params", "body"} :
        Declares(route, section) /\ ~SectionResult(request, route, section).success}

\* C4: when a section of the request fails the schema the matched route
\* declares for it, the response is a 400 whose details are the issues of a
\* failing section, and neither a route middleware nor the handler ran; for
\* the body schema {name: string.min(3)} and the body {"name": "ab"} the
\* details are one issue of path ["name"] and code too_small.
C4_ValidationFailureIs400 ==
    (Selected # <<>> /\ FailingSections(last.request, Selected[1]) # {}) =>
        /\ last.response.status = 400
        /\ \E section \in FailingSections(last.request, Selected[1]) :
              last.response.body.details =
                  SectionResult(last.request, Selected[1], section).error.issues
        /\ Calls(last.log, "route") = {}
        /\ Calls(last.log, "handler") = {}
        /\ (Selected[1].url = PathUsers /\ last.request.body = NameBody(<<"a", "b">>)) =>
              /\ Len(last.response.body.details) = 1
              /\ last.response.body.details[1].path = <<VString(KeyName)>>
              /\ last.response.body.details[1].code = "too_small"

\* POST /users with the body {"name": "ab"} reached the route whose body
\* schema is {name: string.min(3)}, with every callback ready to answer.
C4_Witness ==
    /\ Selected # <<>>
    /\ Selected[1].url = PathUsers
    /\ Selected[1].method = "POST"
    /\ last.request.body = NameBody(<<"a", "b">>)
    /\ last.responders = Handlers \cup {"r1", "r2"}
    /\ last.response.status = 400

\* The sections the route declares a schema for, in the order query, params,
\* body.
DeclaredSections(route) ==
    SelectSeq(<<"query", "params", "body">>, LAMBDA section : Declares(route, section))

\* The sections whose schema the last dispatch ran, in the order it ran them.
SectionsRun ==
    [i \in 1..Cardinality(Events(last.log, "safeParse")) |->
        last.log[Min(Events(last.log, "safeParse")) + i - 1].section]

\* The places of a list of sections that the request fails.
FailingPlaces(request, route, sections) ==
    {j \in 1..Len(sections) : ~SectionResult(request, route, sections[j]).success}

\* C5: the declared schemas of the matched route are run in the order query,
\* params, body; at the first section that fails the response is the 400
\* with that section's issues and no later schema is run.
C5_ValidationOrder ==
    Selected # <<>> =>
        /\ \A k \in Events(last.log, "safeParse") :
              k - Min(Events(last.log, "safeParse")) < Cardinality(Events(last.log, "safeParse"))
        /\ IF FailingPlaces(last.request, Selected[1], DeclaredSections(Selected[1])) = {}
           THEN SectionsRun = DeclaredSections(Selected[1])
           ELSE /\ SectionsRun =
                      SubSeq(DeclaredSections(Selected[1]), 1,
                          Min(FailingPlaces(last.request, Selected[1],
                                  DeclaredSections(Selected[1]))))
                /\ last.response.status = 400
                /\ last.response.body.details =
                      SectionResult(last.request, Selected[1],
                          SectionsRun[Len(SectionsRun)]).error.issues

\* A POST to the route with three schemas whose query passes and whose
\* params and body both fail: the schemas of the query and the params ran,
\* the one of the body did not.
C5_Witness ==
    /\ Selected # <<>>
    /\ DeclaredSections(Selected[1]) = <<"query", "params", "body">>
    /\ FailingSections(last.request, Selected[1]) = {"params", "body"}
    /\ SectionsRun = <<"query", "params">>
    /\ last.response.status = 400

\* C6 as the claim states it: whichever section fails, the response is the
\* status 400 with the body { success: false, error: "400 Bad Request.",
\* details: the issues of the failing section }.
C6_ErrorTextAsClaimed ==
    (Selected # <<>> /\ FailingSections(last.request, Selected[1]) # {}) =>
        \E section \in FailingSections(last.request, Selected[1]) :
            last.response =
                [status |-> 400,
                 body |-> [success |-> FALSE, error |-> "400 Bad Request.",
                           details |-> SectionResult(last.request, Selected[1], section).error.issues]]

\* The request handed to the handler by the last dispatch, <<>> when the
\* handler was not called.
HandlerRequest ==
    IF last = NoDispatch \/ Calls(last.log, "handler") = {} THEN <<>>
    ELSE <<last.log[Min(Calls(last.log, "handler"))].req>>

\* The field of a request that a section is.
SectionField(req, section) ==
    CASE section = "query" -> VObject(req.query)
      [] section = "params" -> VObject(req.params)
      [] section = "body" -> req.body

\* C7 as the claim states it: the handler sees, for every section the route
\* declares a schema for, the output of that schema: for an object schema
\* exactly the declared keys, none of the undeclared keys of the input.
C7_FieldReplacedAsClaimed ==
    (Selected # <<>> /\ HandlerRequest # <<>>) =>
        \A section \in {"query", "params", "body"} :
            Declares(Selected[1], section) =>
                SectionField(HandlerRequest[1], section) =
                    SectionResult(last.request, Selected[1], section).data

-----------------------------------------------------------------------------
(* SpecNormalize: requests for every spelling of a path.                    *)

\* The request paths: every string that begins with a slash, as the
\* pathname of a URL does.
RawPaths == {<<SLASH>> \o p : p \in StrsOver({SLASH, "a", "b"}, MaxRawLen - 1)}

PathId == <<"/", ":", "i", "d">>
PathAB == <<"/", "a", "/", "b">>

NormalizeRouteInputs ==
    { Route("GET", Root, "h1", <<>>, NoSchemas),
      Route("GET", PathA, "h2", <<"r1">>, NoSchemas),
      Route("GET", PathId, "h3", <<>>, NoSchemas),
      Route("GET", PathAId, "h4", <<"r1">>, NoSchemas),
      Route("GET", PathAB, "h1", <<>>, NoSchemas) }

NormalizeResponderSets == { {}, Handlers }

NextNormalize ==
    \/ \E route \in NormalizeRouteInputs : AddRoute("S", route)
    \/ Listen
    \/ \E pathname \in RawPaths, responders \in NormalizeResponderSets :
          HandleRequest(Request("GET", pathname, EmptyRecord, VNull), responders)
    \/ Respond

SpecNormalize == Init /\ [][NextNormalize]_vars

\* The pieces between the slashes of a path that are not empty.
NonEmptySegments(path) == SelectSeq(Split(path), LAMBDA piece : piece # <<>>)

\* The non-empty pieces of every request path.
SegmentsOfRawPath == [p \in RawPaths |-> NonEmptySegments(p)]

\* Two request paths differ only by repeated slashes or by a trailing slash.
SameButSlashes(p, q) == SegmentsOfRawPath[p] = SegmentsOfRawPath[q]

\* A dispatch came out as the last one did: the same response, the same
\* route looked up, the same callbacks with the same request, url and
\* params included.
AsLast(out) ==
    /\ out.response = last.response
    /\ out.log = last.log
    /\ out.req = last.req

\* C8: a request whose path differs from the path of the request served
\* only by repeated slashes or a trailing slash is dispatched identically:
\* the same route, the same params, the same normalized req.url in every
\* callback, the same response.
C8_SlashSpellingsDispatchAlike ==
    last # NoDispatch =>
        \A q \in RawPaths :
            SameButSlashes(q, last.request.pathname) =>
                AsLast(requestListener(routers["S"], notFoundHandler,
                           [last.request EXCEPT !.pathname = q], last.responders))

\* GET //a// was served by the handler of the route /a, which saw the url /a.
C8_Witness ==
    /\ last # NoDispatch
    /\ last.request.pathname = <<"/", "/", "a", "/", "/">>
    /\ Selected # <<>>
    /\ Selected[1].url = PathA
    /\ HandlerRequest # <<>>
    /\ HandlerRequest[1].url = PathA
    /\ last.response = CallbackResponse("h2")

-----------------------------------------------------------------------------
(* SpecMatch: the path matcher taken alone, on every pattern and path of    *)
(* up to MaxSegments segments.                                              *)

\* The segments of one or two characters of the given ones.
SegmentsOver(chars) == {<<c>> : c \in chars} \cup {<<c, d>> : c \in chars, d \in chars}

\* The urls of up to n segments: the root, or a slash before each segment.
RECURSIVE UrlsOf(_, _)
UrlsOf(segments, n) ==
    IF n = 0 THEN {<<>>}
    ELSE UrlsOf(segments, n - 1) \cup
         {u \o <<SLASH>> \o seg : u \in UrlsOf(segments, n - 1) \ {<<>>}, seg \in segments}
         \cup {<<SLASH>> \o seg : seg \in segments}

\* The route urls as the registry stores them, with the parameter marker,
\* a regular-expression metacharacter and a plain letter in their segments.
Patterns == {normalizePath(<<u>>) : u \in UrlsOf(SegmentsOver({COLON, DOT, "a"}), MaxSegments)}

\* The normalized request paths.
Paths == {normalizePath(<<u>>) : u \in UrlsOf(SegmentsOver({COLON, "a"}), MaxSegments)}

InitMatch ==
    /\ InitServer({Root})
    /\ mPattern \in Patterns
    /\ mPath \in Paths
    /\ mParams = EmptyRecord
    /\ mPc = "input"

\* The route's regular expression accepts the path: findMatchingRoute
\* returns the route and requestListener extracts the params.
Match ==
    /\ mPc = "input"
    /\ RouteMatches(mPattern, mPath)
    /\ mParams' = extractRouteParams(mPath, mPattern)
    /\ mPc' = "matched"
    /\ UNCHANGED <<serverVars, inFlight, mPattern, mPath>>

\* The regular expression rejects the path: the route is passed over.
NoMatch ==
    /\ mPc = "input"
    /\ ~RouteMatches(mPattern, mPath)
    /\ mPc' = "rejected"
    /\ UNCHANGED <<serverVars, inFlight, mPattern, mPath, mParams>>

NextMatch == Match \/ NoMatch

SpecMatch == InitMatch /\ [][NextMatch]_vars

\* The places of the segments of a pattern that start with ":".
NamedPlaces(pattern) ==
    {i \in 1..Len(Segments(pattern)) : StartsWithColon(Segments(pattern)[i])}

\* The name of the segment at a place: the segment after its ":".
NameAt(pattern, i) == Slice1(Segments(pattern)[i])

\* The matcher accepted a path that has as many segments as the pattern.
MatchedEqualCount ==
    mPc = "matched" /\ Len(Segments(mPattern)) = Len(Segments(mPath))

\* C9 as the claim states it: a pattern with n named segments and a matching
\* path of equal segment count give exactly n bindings, one per named
\* segment, keyed by its name and valued with the path segment at its place.
C9_BindingsAsClaimed ==
    MatchedEqualCount =>
        /\ Cardinality(DOMAIN mParams) = Cardinality(NamedPlaces(mPattern))
        /\ \A i \in NamedPlaces(mPattern) :
              /\ NameAt(mPattern, i) \in DOMAIN mParams
              /\ mParams[NameAt(mPattern, i)] = Segments(mPath)[i]

\* The last of the places of a pattern that carry a name.
LastPlaceOf(pattern, name) ==
    CHOOSE i \in NamedPlaces(pattern) :
        /\ NameAt(pattern, i) = name
        /\ \A j \in NamedPlaces(pattern) : NameAt(pattern, j) = name => j <= i

\* C9, amended: for a matching path of equal segment count the bindings are
\* keyed by the names of the named segments, one binding per distinct name,
\* each valued with the path segment at the last place that carries the
\* name; so a pattern whose n names are all different gives exactly n
\* bindings, each valued with the segment at its own place.
C9_BindingsPerDistinctName ==
    MatchedEqualCount =>
        /\ DOMAIN mParams = {NameAt(mPattern, i) : i \in NamedPlaces(mPattern)}
        /\ \A name \in DOMAIN mParams :
              mParams[name] = Segments(mPath)[LastPlaceOf(mPattern, name)]
        /\ (\A i, j \in NamedPlaces(mPattern) :
               NameAt(mPattern, i) = NameAt(mPattern, j) => i = j)
           => /\ Cardinality(DOMAIN mParams) = Cardinality(NamedPlaces(mPattern))
              /\ \A i \in NamedPlaces(mPattern) :
                    mParams[NameAt(mPattern, i)] = Segments(mPath)[i]

\* /:a/:. matched /a/:a and gave two bindings.
C9_Witness ==
    /\ MatchedEqualCount
    /\ mPattern = <<"/", ":", "a", "/", ":", ".">>
    /\ mPath = <<"/", "a", "/", ":", "a">>
    /\ Cardinality(DOMAIN mParams) = 2
    /\ mParams[<<"a">>] = <<"a">>
    /\ mParams[<<".">>] = <<":", "a">>

-----------------------------------------------------------------------------
(* SpecMount: a router with middlewares and routes is mounted on the        *)
(* server, both go on registering, then requests are served.                *)

MountRouteInputs ==
    { Route("GET", PathX, "h1", <<"r1">>, NoSchemas),
      Route("GET", PathId, "h2", <<>>, NoSchemas) }

\* The middlewares each router is given to use.
MiddlewaresOf(r) == IF r = "S" THEN {"g1"} ELSE {"c1", "c2"}

MountRequests ==
    { Request("GET", PathX, EmptyRecord, VNull),
      Request("GET", PathAX, EmptyRecord, VNull),
      Request("GET", <<"/", "a", "/", "a", "/", "x">>, EmptyRecord, VNull) }

MountResponderSets ==
    { {}, Handlers, {"g1"} \cup Handlers, {"c1"} \cup Handlers, {"r1"} \cup Handlers }

NextMount ==
    \/ \E route \in MountRouteInputs : AddRoute("C", route)
    \/ \E r \in RouterIds : \E m \in MiddlewaresOf(r) : UseMiddleware(r, m)
    \/ \E prefix \in Prefixes : Mount("S", prefix, "C")
    \/ Listen
    \/ \E request \in MountRequests, responders \in MountResponderSets :
          HandleRequest(request, responders)
    \/ Respond

SpecMount == InitRouter /\ [][NextMount]_vars

\* What the mount calls recorded about the route the last dispatch selected:
\* empty when the route was not copied by a mount.
SelectedMounts ==
    IF Selected = <<>> THEN {}
    ELSE {e \in mountLog : e.method = Selected[1].method /\ e.url = Selected[1].url}

\* The middlewares the last dispatch executed, in order.
RECURSIVE MiddlewaresIn(_)
MiddlewaresIn(log) ==
    IF log = <<>> THEN <<>>
    ELSE IF log[1].ev = "call" /\ log[1].kind \in {"global", "route"}
         THEN <<log[1].fn>> \o MiddlewaresIn(Tail(log))
    ELSE MiddlewaresIn(Tail(log))

\* A list of middlewares up to the first one that answers, the whole list
\* when none does.
RECURSIVE UpToResponder(_, _)
UpToResponder(middlewares, responders) ==
    IF middlewares = <<>> THEN <<>>
    ELSE IF middlewares[1] \in responders THEN <<middlewares[1]>>
    ELSE <<middlewares[1]>> \o UpToResponder(Tail(middlewares), responders)

\* C10 as the claim states it: for a route copied by P.use(prefix, C) the
\* middlewares executed are P's, then C's, then the route's own, each as it
\* stood when the mount call ran.
C10_MiddlewaresAsClaimed ==
    \A e \in SelectedMounts :
        MiddlewaresIn(last.log) =
            UpToResponder(e.mounting \o e.mounted \o e.own, last.responders)

\* C10, amended: for a route copied by server.use(prefix, C) the middlewares
\* executed are the server's own as they stand when the request is served,
\* then C's and the route's own as they stood when the mount call ran; the
\* last two are concatenated once, into the copied route, at mount time.
C10_MountedMiddlewares ==
    \A e \in SelectedMounts :
        /\ Selected[1].middlewares = e.mounted \o e.own
        /\ MiddlewaresIn(last.log) =
              UpToResponder(routers["S"].middlewares \o e.mounted \o e.own, last.responders)

\* C used c1, was mounted, then C used c2 and the server used g1; the
\* request to the copied route ran g1, c1, r1 and the handler.
C10_Witness ==
    /\ SelectedMounts # {}
    /\ routers["C"].middlewares = <<"c1", "c2">>
    /\ routers["S"].middlewares = <<"g1">>
    /\ \E e \in SelectedMounts : e.mounting = <<>> /\ e.mounted = <<"c1">>
    /\ MiddlewaresIn(last.log) = <<"g1", "c1", "r1">>
    /\ last.response = CallbackResponse("h1")

-----------------------------------------------------------------------------
(* SpecCompose: two routers, each with a prefix of its own; both register   *)
(* routes, C uses middlewares, and S mounts C under a prefix.               *)

PathBRaw == <<"/", "b", "/">>
PathB == <<"/", "b">>

\* The prefixes given to use(prefix, router); new Router(prefix) takes its
\* prefix from Prefixes.
ComposePrefixes == {Root, PathA, PathBRaw}

ComposeRouteInputs ==
    { Route("GET", Root, "h1", <<>>, NoSchemas),
      Route("GET", PathX, "h2", <<"r1">>, NoSchemas),
      Route("POST", PathXRaw, "h3", <<>>, NoSchemas) }

InitCompose ==
    /\ routers \in {[r \in RouterIds |-> NewRouter(IF r = "S" THEN p ELSE q)] :
                       p \in Prefixes, q \in Prefixes}
    /\ notFoundHandler = "default"
    /\ listening = FALSE
    /\ lastCall = [op |-> "new"]
    /\ mountLog = {}
    /\ last = NoDispatch
    /\ inFlight = NoneInFlight
    /\ MatcherIdle

NextCompose ==
    \/ \E r \in RouterIds, route \in ComposeRouteInputs : AddRoute(r, route)
    \/ UseMiddleware("C", "c1")
    \/ \E prefix \in ComposePrefixes : Mount("S", prefix, "C")

SpecCompose == InitCompose /\ [][NextCompose]_vars

\* The path a route of a router was registered with: the url of the call
\* that has its handler.
OwnPath(route) ==
    (CHOOSE input \in ComposeRouteInputs :
        input.requestListener = route.requestListener).url

\* The parts put one after the other with a slash before each non-empty
\* segment: no empty segment, no repeated slash, no trailing slash but the
\* root's.
RECURSIVE SlashBefore(_)
SlashBefore(segments) ==
    IF segments = <<>> THEN <<>>
    ELSE <<SLASH>> \o segments[1] \o SlashBefore(Tail(segments))

RECURSIVE Concatenated(_)
Concatenated(parts) ==
    IF parts = <<>> THEN <<>> ELSE parts[1] \o <<SLASH>> \o Concatenated(Tail(parts))

SlashNormal(parts) ==
    IF NonEmptySegments(Concatenated(parts)) = <<>> THEN <<SLASH>>
    ELSE SlashBefore(NonEmptySegments(Concatenated(parts)))

\* The urls of a list of routes, in order.
UrlsOfRoutes(routes) == [i \in 1..Len(routes) |-> routes[i].url]

\* The mount of C on S under the prefix returned normally.
MountReturned(prefix) == Mount("S", prefix, "C") /\ ~lastCall'.threw

\* C11 as the claim states it: after P.use(prefix, C) each route of C is in
\* P's registry under the slash-normalized concatenation of the mount
\* prefix, C's constructor prefix and the route's own path.
C11_PrefixesAsClaimed ==
    [][\A prefix \in ComposePrefixes :
          MountReturned(prefix) =>
              \A m \in HttpMethodSet :
                  UrlsOfRoutes(routers'["S"].routes[m]) =
                      UrlsOfRoutes(routers["S"].routes[m]) \o
                      [i \in 1..Len(routers["C"].routes[m]) |->
                          SlashNormal(<<prefix, routers["C"].prefix,
                                        OwnPath(routers["C"].routes[m][i])>>)]]_vars

\* C11, amended: after P.use(prefix, C) has returned each route of C is in
\* P's registry, after the routes P had, under the slash-normalized
\* concatenation of P's constructor prefix, the mount prefix, C's
\* constructor prefix and the route's own path, each applied once.
C11_PrefixesComposed ==
    [][\A prefix \in ComposePrefixes :
          MountReturned(prefix) =>
              \A m \in HttpMethodSet :
                  UrlsOfRoutes(routers'["S"].routes[m]) =
                      UrlsOfRoutes(routers["S"].routes[m]) \o
                      [i \in 1..Len(routers["C"].routes[m]) |->
                          SlashNormal(<<routers["S"].prefix, prefix, routers["C"].prefix,
                                        OwnPath(routers["C"].routes[m][i])>>)]]_vars

\* Router("/a") with the route "/" was mounted under "/b/" on a router of
\* prefix "/": the route is at /b/a and nowhere else.
C11_Witness ==
    /\ lastCall.op = "mount"
    /\ ~lastCall.threw
    /\ lastCall.prefix = PathBRaw
    /\ routers["S"].prefix = Root
    /\ routers["C"].prefix = PathA
    /\ UrlsOfRoutes(routers["C"].routes["GET"]) = <<PathA>>
    /\ UrlsOfRoutes(routers["S"].routes["GET"]) = <<PathB \o PathA>>
    /\ RouteCount(routers["S"]) = 1

\* The route of a router's registry that a mount entry is about.
RouteOf(router, e) ==
    CHOOSE route \in {router.routes[e.method][i] : i \in 1..Len(router.routes[e.method])} :
        route.url = e.url

\* C12: once a mount has copied routes of C into P, C.use(mw) and further
\* routes registered on C change nothing in P's registry, and every copied
\* route keeps the middleware list it was given at the mount: C's
\* middlewares and its own, as they stood then.
C12_MountCopiesByValue ==
    [][((UseMiddleware("C", "c1") \/ \E route \in ComposeRouteInputs : AddRoute("C", route))
            /\ mountLog # {})
          => /\ routers'["S"] = routers["S"]
             /\ \A e \in mountLog' :
                   RouteOf(routers'["S"], e).middlewares = e.mounted \o e.own]_vars

\* C had no middleware when it was mounted and used c1 afterwards: the
\* copied route /b/x has its own middleware r1 alone.
C12_Witness ==
    /\ lastCall = [op |-> "use", router |-> "C", middleware |-> "c1"]
    /\ routers["C"].middlewares = <<"c1">>
    /\ routers["S"].prefix = Root
    /\ \E e \in mountLog :
          /\ e.url = PathB \o PathX
          /\ e.mounted = <<>>
          /\ RouteOf(routers["S"], e).middlewares = <<"r1">>

\* The number of routes of a method's list that are stored under a url.
CountAt(router, method, url) ==
    Cardinality({i \in 1..Len(router.routes[method]) : router.routes[method][i].url = url})

\* The route GET /x as R registers it.
RouteX == Route("GET", PathX, "h2", <<"r1">>, NoSchemas)

\* R holds the route it registered as /x.
HoldsRouteX(router) ==
    \E i \in 1..Len(router.routes["GET"]) : router.routes["GET"][i].requestListener = "h2"

\* Where the route /x of C is to be found in S once C is mounted under the
\* prefix.
MountedUrlOfX(prefix) ==
    SlashNormal(<<routers["S"].prefix, prefix, routers["C"].prefix, PathX>>)

\* R had /x before the mount call, which returned: one route at the url.
OneRouteWhenRegisteredBefore ==
    \A prefix \in ComposePrefixes :
        (MountReturned(prefix) /\ HoldsRouteX(routers["C"])) =>
            CountAt(routers'["S"], "GET", MountedUrlOfX(prefix)) = 1

\* C13 as the claim states it: mounting R under a prefix yields exactly one
\* route at prefix/x in the mounting router's registry, when /x was
\* registered on R before the mount call and also when R gained /x right
\* after a mount call that had returned.
C13_OneRouteEitherOrder ==
    [][/\ OneRouteWhenRegisteredBefore
       /\ (lastCall.op = "mount" /\ ~lastCall.threw
              /\ AddRoute("C", RouteX) /\ ~lastCall'.threw) =>
             CountAt(routers'["S"], "GET", MountedUrlOfX(lastCall.prefix)) = 1]_vars

\* C13, amended: mounting R under a prefix yields exactly one route at
\* prefix/x in the mounting router's registry when /x was registered on R
\* before the mount call; a mount of a router without routes returns
\* normally and adds nothing; and when R gains /x only after the mount
\* call, the mounting router's registry stays as the mount call left it.
C13_OneRouteWhenRegisteredFirst ==
    [][/\ OneRouteWhenRegisteredBefore
       /\ \A prefix \in ComposePrefixes :
             (Mount("S", prefix, "C") /\ RouteCount(routers["C"]) = 0) =>
                 (~lastCall'.threw /\ routers' = routers)
       /\ (lastCall.op = "mount" /\ ~lastCall.threw /\ AddRoute("C", RouteX)) =>
             (routers'["S"] = routers["S"] /\ mountLog' = mountLog)]_vars

\* R, holding "/", was mounted under /b/ and then gained /x: the mounting
\* router has the copy of "/" at /b and no route at /b/x.
C13_Witness ==
    /\ lastCall = [op |-> "addRoute", router |-> "C", route |-> RouteX, threw |-> FALSE]
    /\ routers["S"].prefix = Root
    /\ routers["C"].prefix = Root
    /\ UrlsOfRoutes(routers["C"].routes["GET"]) = <<Root, PathX>>
    /\ UrlsOfRoutes(routers["S"].routes["GET"]) = <<PathB>>
    /\ \E e \in mountLog : e.url = PathB
    /\ CountAt(routers["S"], "GET", PathB \o PathX) = 0

\* C14: P.use(prefix, C) and P.use(C) leave C as it was: its registry (each
\* method's routes with their url, handler, schemas and middlewares) and
\* its router-level middlewares, whether the mount returns or throws.
C14_MountLeavesMountedRouter ==
    [][\A prefix \in ComposePrefixes :
          Mount("S", prefix, "C") => routers'["C"] = routers["C"]]_vars

\* A mount that threw on a route the mounting router already had: C still
\* has its route and its middleware.
C14_Witness ==
    /\ lastCall.op = "mount"
    /\ lastCall.threw
    /\ RouteCount(routers["C"]) = 1
    /\ RouteCount(routers["S"]) = 1
    /\ routers["C"].middlewares = <<"c1">>
    /\ HoldsRouteX(routers["C"])

-----------------------------------------------------------------------------
(* The not-found fallback and the pre-flight method, under Spec.            *)

\* What the not-found fallback answers in the last dispatch: the response
\* of the handler given to notFound() when it returns one, the built-in
\* 404 otherwise.
NotFoundAnswer ==
    IF notFoundHandler = "custom" /\ "custom" \in last.responders
    THEN CallbackResponse("custom")
    ELSE [status |-> 404, body |-> [success |-> FALSE, error |-> "404 Not Found."]]

\* The last dispatch came to look for a route and no route of the request's
\* method matches the normalized path.
RoutingMiss ==
    /\ last # NoDispatch
    /\ Events(last.log, "findMatchingRoute") # {}
    /\ StructMatches(routers["S"].routes[last.request.method], last.req.url) = {}

\* C15: on a routing miss the dispatch result is the response of the
\* configured not-found handler, or the built-in 404 when that handler
\* returns nothing; the handler is called once and no route middleware and
\* no route handler is invoked.
C15_MissGoesToNotFound ==
    RoutingMiss =>
        /\ last.response = NotFoundAnswer
        /\ Cardinality(Calls(last.log, "notFound")) = 1
        /\ \A c \in Calls(last.log, "notFound") : last.log[c].fn = notFoundHandler
        /\ Calls(last.log, "route") = {}
        /\ Calls(last.log, "handler") = {}

\* GET /a/x missed the only route, /a/static, and the handler given to
\* notFound() answered.
C15_Witness ==
    /\ RoutingMiss
    /\ last.request.pathname = PathAX
    /\ UrlsOfRoutes(routers["S"].routes["GET"]) = <<PathAStatic>>
    /\ notFoundHandler = "custom"
    /\ last.response = CallbackResponse("custom")

\* The last dispatch called the handler of the matched route and it
\* returned nothing.
HandlerReturnedNothing ==
    /\ Selected # <<>>
    /\ Calls(last.log, "handler") # {}
    /\ Selected[1].requestListener \notin last.responders

\* C16: when the handler of the matched route returns nothing, the dispatch
\* result is what a routing miss produces: the not-found handler is called,
\* after the handler, and its response, or the built-in 404 when it returns
\* nothing, is the result.
C16_SilentHandlerGoesToNotFound ==
    HandlerReturnedNothing =>
        /\ last.response = NotFoundAnswer
        /\ Len(last.log) = Max(Calls(last.log, "handler")) + 1
        /\ last.log[Len(last.log)] = Called("notFound", notFoundHandler, last.log[Len(last.log)].req)

\* GET /a/static reached the handler of /a/:id after the route's
\* middlewares; none of them answers, nor does the not-found handler: the
\* result is the built-in 404.
C16_Witness ==
    /\ HandlerReturnedNothing
    /\ Selected[1].url = PathAStatic
    /\ Selected[1].middlewares = <<"r1", "r2">>
    /\ Cardinality(Calls(last.log, "route")) = 2
    /\ last.responders = {}
    /\ notFoundHandler = "custom"
    /\ last.response.status = 404

\* C17: an OPTIONS request that no global middleware answers gets the empty
\* 200 response after all the global middlewares have run, and nothing else
\* runs: no route lookup, no schema, no route middleware, no handler, no
\* not-found handler.
C17_PreflightAnswered ==
    (last # NoDispatch /\ last.request.method = "OPTIONS" /\ GlobalResponders = {}) =>
        /\ last.response = [status |-> 200, body |-> VNull]
        /\ Len(last.log) = Len(routers["S"].middlewares)
        /\ \A i \in 1..Len(last.log) :
              last.log[i] = Called("global", routers["S"].middlewares[i], last.log[i].req)

\* OPTIONS /a/static with two global middlewares that return nothing and
\* every handler ready to answer.
C17_Witness ==
    /\ last # NoDispatch
    /\ last.request.method = "OPTIONS"
    /\ routers["S"].middlewares = <<"g1", "g2">>
    /\ last.responders = {"r1"} \cup Handlers \cup {"custom"}
    /\ last.response.status = 200
    /\ Len(last.log) = 2

-----------------------------------------------------------------------------
(* The schemas applied on their own: one call of parse or safeParse of a   *)
(* schema on a value, the call and what it did recorded in last.            *)

MaxItems == 2

KeyTag == <<"t", "a", "g">>
KeyItems == <<"i", "t", "e", "m", "s">>

\* z.string().min(2).
LeafSchema == StrMin(StringSchema, 2)

\* z.object({ name: z.string().min(2), tag: z.string().min(2) }).
NameTagSchema == ObjectSchema(<<Field(KeyName, LeafSchema), Field(KeyTag, LeafSchema)>>)

KeyA == <<"a">>
KeyB == <<"b">>

\* z.object({ a: z.array(z.object({ b: z.string().min(2) })) }).
NestedSchema ==
    ObjectSchema(<<Field(KeyA, ArraySchema(ObjectSchema(<<Field(KeyB, LeafSchema)>>)))>>)

SchemaInputs ==
    { LeafSchema, AnySchema, OptionalSchema(LeafSchema),
      NameTagSchema,
      ObjectSchema(<<Field(KeyTag, OptionalSchema(LeafSchema)), Field(KeyName, LeafSchema)>>),
      ObjectSchema(<<Field(KeyItems, ArraySchema(LeafSchema)), Field(KeyName, LeafSchema)>>),
      ArraySchema(LeafSchema),
      ArrMin(ArraySchema(LeafSchema), 2),
      ArrMax(ArraySchema(AnySchema), 1),
      ArrLength(ArraySchema(NameTagSchema), 1),
      UnionSchema(<<LeafSchema, AnySchema>>),
      UnionSchema(<<LeafSchema, StrLength(StringSchema, 1)>>),
      UnionSchema(<<ArraySchema(LeafSchema), LeafSchema>>),
      NestedSchema,
      NullableSchema(LeafSchema),
      NumberSchema,
      NumNegative(NumMin(NumberSchema, 5)),
      NumPositive(NumMax(NumberSchema, -5)),
      NumInt(NumMin(NumberSchema, 3)),
      NumInt(NumPositive(NumberSchema)),
      NumNegative(NumMax(NumMin(NumberSchema, -3), 3)),
      BooleanSchema,
      EnumSchema(<<VString(<<"1">>), VString(<<"a", "b">>)>>) }

\* "ab", "a", Object.create(null) and undefined.
LeafInputs == { VString(<<"a", "b">>), VString(<<"a">>), VNullProto, VUndefined }

\* The arrays of at most MaxItems leaves.
ArrayInputs ==
    { VArray(items) : items \in UNION { [1..n -> LeafInputs] : n \in 0..MaxItems } }

\* { name, tag } of leaves, with or without a further key extra: "a".
ObjectInputs ==
    { VObject(o) : o \in [{KeyName, KeyTag} -> LeafInputs] }
    \cup { VObject(ObjectAssign(o, [n \in {KeyExtra} |-> VString(<<"a">>)])) :
             o \in [{KeyName, KeyTag} -> LeafInputs] }
    \cup { VObject([n \in {KeyItems, KeyName} |->
                       IF n = KeyItems THEN a ELSE VString(<<"a">>)]) : a \in ArrayInputs }
    \cup { VArray(<<o>>) : o \in { VObject(f) : f \in [{KeyName, KeyTag} -> LeafInputs] } }

\* { a: [{ b: leaf }, ...] } with at most MaxItems + 1 elements.
NestedInput(leaves) ==
    VObject([n \in {KeyA} |->
        VArray([i \in 1..Len(leaves) |-> VObject([m \in {KeyB} |-> leaves[i]])])])
NestedInputs ==
    { NestedInput(leaves) :
        leaves \in UNION { [1..n -> LeafInputs] : n \in 0..(MaxItems + 1) } }

\* "", 0, false, and true, 5, -3.
PrimitiveInputs ==
    { VString(<<>>), VNumber(0), VBoolean(FALSE), VBoolean(TRUE), VNumber(5), VNumber(-3) }

\* 3, "3", "2.5", "-3", "-0.5" and "7.".
NumberInputs ==
    { VNumber(3), VString(<<"3">>), VString(<<"2", ".", "5">>), VString(<<"-", "3">>),
      VString(<<"-", "0", ".", "5">>), VString(<<"7", ".">>) }

\* "true", "TRUE", "false", "on", "off", "yes", "1", "0" and 1.
BooleanInputs ==
    { VString(<<"t", "r", "u", "e">>), VString(<<"T", "R", "U", "E">>),
      VString(<<"f", "a", "l", "s", "e">>), VString(<<"o", "n">>), VString(<<"o", "f", "f">>),
      VString(<<"y", "e", "s">>), VString(<<"1">>), VString(<<"0">>), VNumber(1) }

DataInputs ==
    LeafInputs \cup ArrayInputs \cup ObjectInputs \cup NestedInputs \cup PrimitiveInputs
    \cup NumberInputs \cup BooleanInputs \cup {VNull}

\* schema.parse(data) called.
Parse(schema, data) ==
    /\ last = NoDispatch
    /\ last' = [op |-> "parse", schema |-> schema, data |-> data,
                outcome |-> parse(schema, data)]
    /\ UNCHANGED <<routers, notFoundHandler, listening, lastCall, mountLog, matchVars, inFlight>>

\* schema.safeParse(data) called.
SafeParse(schema, data) ==
    /\ last = NoDispatch
    /\ last' = [op |-> "safeParse", schema |-> schema, data |-> data,
                outcome |-> safeParse(schema, data)]
    /\ UNCHANGED <<routers, notFoundHandler, listening, lastCall, mountLog, matchVars, inFlight>>

NextSchema ==
    \/ \E schema \in SchemaInputs, data \in DataInputs : Parse(schema, data)
    \/ \E schema \in SchemaInputs, data \in DataInputs : SafeParse(schema, data)

SpecSchema == Init /\ [][NextSchema]_vars

\* The last call was op.
LastWas(op) == last # NoDispatch /\ last.op = op

\* The call ended by throwing an error to its caller.
Raises(out) == "thrown" \in DOMAIN out

\* What the claim says of the result out of safeParse, p being what parse
\* does on the same schema and value.
SafeParseNeverRaises(out, p) ==
    /\ ~Raises(out)
    /\ (~p.ok) <=> (out.success = FALSE)
    /\ p.ok => out.data = p.data

SafeParseCaptures(out, p) ==
    /\ Raises(out) <=> (~p.ok /\ ~IsValidationError(p))
    /\ Raises(out) => out.thrown = p.failure
    /\ ~Raises(out) =>
          /\ (~p.ok) <=> (out.success = FALSE)
          /\ p.ok => out.data = p.data
          /\ ~p.ok => out.error.issues = p.issues

ObjectPlaces(schema, data) ==
    [i \in 1..Len(schema.shape) |->
        [seg |-> VString(schema.shape[i].key),
         r |-> parse(schema.shape[i].schema, GetProp(data, schema.shape[i].key))]]
ArrayPlaces(schema, data) ==
    [i \in 1..Len(data.items) |->
        [seg |-> VNumber(i - 1), r |-> parse(schema.itemSchema, data.items[i])]]

\* The array has a length the array schema lets through to its elements.
LengthAllowed(schema, n) ==
    /\ SetC(schema.minLength) => n >= schema.minLength[1].value
    /\ SetC(schema.maxLength) => n <= schema.maxLength[1].value
    /\ SetC(schema.exactLength) => n = schema.exactLength[1].value

\* The last call went through the children of an object or of an array.
VisitsObject ==
    last.schema.kind = "object" /\ last.data.t \in {"object", "nullproto"}
VisitsArray ==
    /\ last.schema.kind = "array" /\ last.data.t = "array"
    /\ LengthAllowed(last.schema, Len(last.data.items))
PlacesVisited ==
    IF VisitsObject THEN ObjectPlaces(last.schema, last.data)
    ELSE IF VisitsArray THEN ArrayPlaces(last.schema, last.data)
    ELSE <<>>

\* The members of a union tried on the data: all up to the first that
\* returns a value.
MembersTried(schema, data) ==
    { i \in 1..Len(schema.schemas) :
        \A j \in 1..(i - 1) : ~parse(schema.schemas[j], data).ok }

\* The errors other than ValidationErrors raised while the last call ran:
\* by the schema itself or by a child of the object, array or union.
OtherFailures ==
    LET own == parse(last.schema, last.data)
        pl == PlacesVisited
    IN  (IF ~own.ok /\ ~IsValidationError(own) THEN {own.failure} ELSE {})
        \cup { pl[i].r.failure : i \in { k \in 1..Len(pl) :
                                     ~pl[k].r.ok /\ ~IsValidationError(pl[k].r) } }
        \cup (IF last.schema.kind # "union" THEN {}
              ELSE { parse(last.schema.schemas[i], last.data).failure :
                       i \in { k \in MembersTried(last.schema, last.data) :
                                 LET r == parse(last.schema.schemas[k], last.data)
                                 IN  ~r.ok /\ ~IsValidationError(r) } })

\* C19 as stated: an error that is not a ValidationError, raised by the
\* schema or by a child of an object, array or union schema, makes
\* safeParse raise that error to its caller; it is not turned into a
\* success, a failure result or an issue.
C19_OtherFailuresPropagate ==
    (LastWas("safeParse") /\ OtherFailures # {}) =>
        /\ Raises(last.outcome)
        /\ last.outcome.thrown \in OtherFailures

\* The issues of out whose path starts with seg.
IssuesUnder(issues, seg) ==
    { j \in 1..Len(issues) : issues[j].path # <<>> /\ issues[j].path[1] = seg }

\* The number of issues a failing child brings: its own issues, or one for
\* an error that is no ValidationError.
IssueCount(r) == IF IsValidationError(r) THEN Len(r.issues) ELSE 1

\* The place an issue belongs to.
PlaceOfIssue(pl, issue) == CHOOSE i \in 1..Len(pl) : pl[i].seg = issue.path[1]

\* Every failing place of pl is reported in out and nothing else is, in the
\* order of the places.
AllFailuresReported(out, pl) ==
    /\ out.ok <=> \A i \in 1..Len(pl) : pl[i].r.ok
    /\ ~out.ok =>
          /\ IsValidationError(out)
          /\ \A j \in 1..Len(out.issues) :
                \E i \in 1..Len(pl) : ~pl[i].r.ok /\ out.issues[j].path[1] = pl[i].seg
          /\ \A i \in 1..Len(pl) :
                ~pl[i].r.ok =>
                    Cardinality(IssuesUnder(out.issues, pl[i].seg)) = IssueCount(pl[i].r)
          /\ \A j, k \in 1..Len(out.issues) :
                j < k => PlaceOfIssue(pl, out.issues[j]) <= PlaceOfIssue(pl, out.issues[k])

\* C20: parse of an object schema on an object, and of an array schema on
\* an array of an allowed length, runs the schema of every declared key and
\* of every element; it fails exactly when one of them fails, with one
\* ValidationError holding the issues of every failing key or element, in
\* declaration or index order, and no issue for a key that is not declared.
C20_EveryFailureReported ==
    (LastWas("parse") /\ (VisitsObject \/ VisitsArray)) =>
        AllFailuresReported(last.outcome, PlacesVisited)

\* { name: "a", tag: "a", extra: "a" } against two fields of at least two
\* characters: two issues, name then tag, none for extra.
C20_Witness ==
    /\ LastWas("parse")
    /\ last.schema = NameTagSchema
    /\ last.data = VObject([n \in {KeyName, KeyTag, KeyExtra} |-> VString(<<"a">>)])
    /\ ~last.outcome.ok
    /\ Len(last.outcome.issues) = 2
    /\ last.outcome.issues[1].path = <<VString(KeyName)>>
    /\ last.outcome.issues[2].path = <<VString(KeyTag)>>

\* Where a path leads from a schema and the value it is given: a declared
\* key leads into an object to the key's schema and the key's value, an
\* index into an array to the item schema and the element, and an optional
\* wrapper is passed through; a segment that fits neither leads nowhere.
RECURSIVE Descend(_, _, _)
Descend(schema, data, path) ==
    IF schema.kind = "optional" /\ data # VUndefined
    THEN Descend(schema.schema, data, path)
    ELSE IF path = <<>> THEN <<[schema |-> schema, data |-> data]>>
    ELSE IF /\ schema.kind = "object" /\ data.t \in {"object", "nullproto"}
            /\ path[1].t = "string"
            /\ \E i \in 1..Len(schema.shape) : schema.shape[i].key = path[1].s
    THEN Descend((CHOOSE f \in {schema.shape[i] : i \in 1..Len(schema.shape)} :
                     f.key = path[1].s).schema,
                 GetProp(data, path[1].s), Tail(path))
    ELSE IF /\ schema.kind = "array" /\ data.t = "array"
            /\ path[1].t = "number" /\ path[1].n \in 0..(Len(data.items) - 1)
    THEN Descend(schema.itemSchema, data.items[path[1].n + 1], Tail(path))
    ELSE <<>>

\* The failure of the schema at the end of an issue's path, on the value
\* there, is the issue's own: an issue of empty path with the same message
\* and code, or the error the issue was made of.
LeafIssueOf(issue, r) ==
    /\ ~r.ok
    /\ IF IsValidationError(r)
       THEN \E k \in 1..Len(r.issues) :
               r.issues[k] = [path |-> <<>>, message |-> issue.message, code |-> issue.code]
       ELSE issue.message = ErrorText(r.failure) /\ issue.code = "custom_error"

IssueLeadsToLeaf(schema, data, issue) ==
    /\ Descend(schema, data, issue.path) # <<>>
    /\ LeafIssueOf(issue, parse(Descend(schema, data, issue.path)[1].schema,
                                Descend(schema, data, issue.path)[1].data))

\* C21: the path of every issue lists, from the root schema down, the keys
\* of the objects and the indexes of the arrays around the failing schema,
\* in that order, and the issue has the message and the code of the failure
\* of that schema on the value found there.
C21_PathsRootToLeaf ==
    (LastWas("parse") /\ ~last.outcome.ok /\ IsValidationError(last.outcome)) =>
        \A j \in 1..Len(last.outcome.issues) :
            IssueLeadsToLeaf(last.schema, last.data, last.outcome.issues[j])

\* Field b of element 2 of field a is too short: the one issue has path
\* ["a", 2, "b"] and the leaf's message and code.
C21_Witness ==
    /\ LastWas("parse")
    /\ last.schema = NestedSchema
    /\ last.data = NestedInput(<<VString(<<"a", "b">>), VString(<<"a", "b">>), VString(<<"a">>)>>)
    /\ ~last.outcome.ok
    /\ Len(last.outcome.issues) = 1
    /\ last.outcome.issues[1].path = <<VString(KeyA), VNumber(2), VString(KeyB)>>
    /\ last.outcome.issues[1].code = "too_small"

\* The members of a union that return a value on the data.
MembersReturning(schema, data) ==
    { i \in 1..Len(schema.schemas) : parse(schema.schemas[i], data).ok }

\* The one issue of a union none of whose members returns.
InvalidUnion ==
    <<[path |-> <<>>, message |-> "Value does not match any of the expected types",
       code |-> "invalid_union"]>>

\* C22: parse of a union returns what the first member, in declared order,
\* that succeeds returns, whatever the later members do; exactly when every
\* member fails it raises a ValidationError of one issue, of code
\* invalid_union and empty path, with nothing of the members' issues.
C22_FirstMemberWins ==
    (LastWas("parse") /\ last.schema.kind = "union") =>
        IF MembersReturning(last.schema, last.data) # {}
        THEN last.outcome =
                parse(last.schema.schemas[Min(MembersReturning(last.schema, last.data))],
                      last.data)
        ELSE /\ ~last.outcome.ok
             /\ IsValidationError(last.outcome)
             /\ last.outcome.issues = InvalidUnion

\* ["ab"] against z.union([z.array(z.string().min(2)), z.string().min(2)]):
\* both members accept it, the array returns ["ab"] and the string "ab";
\* the union returns the array.
C22_Witness ==
    /\ LastWas("parse")
    /\ last.schema = UnionSchema(<<ArraySchema(LeafSchema), LeafSchema>>)
    /\ last.data = VArray(<<VString(<<"a", "b">>)>>)
    /\ parse(LeafSchema, last.data) = Returned(VString(<<"a", "b">>))
    /\ last.outcome = Returned(VArray(<<VString(<<"a", "b">>)>>))

\* The falsy values: "", 0, false, null and undefined.
FalsyValues == { VString(<<>>), VNumber(0), VBoolean(FALSE), VNull, VUndefined }

NumberViolated(schema, c, k) ==
    CASE c = "integer" -> SetC(schema.isInt) /\ k % 10 # 0
      [] c = "positive" -> SetC(schema.isPositive) /\ k <= 0
      [] c = "negative" -> SetC(schema.isNegative) /\ k >= 0
      [] c = "min" -> SetC(schema.minValue) /\ k < 10 * schema.minValue[1].value
      [] c = "max" -> SetC(schema.maxValue) /\ k > 10 * schema.maxValue[1].value
NumberIssue(c, schema) ==
    CASE c = "integer" -> [code |-> "invalid_type", message |-> "Expected integer, got float"]
      [] c = "positive" -> [code |-> "too_small", message |-> "Number must be positive"]
      [] c = "negative" -> [code |-> "too_big", message |-> "Number must be negative"]
      [] c = "min" -> [code |-> "too_small", message |-> schema.minValue[1].message]
      [] c = "max" -> [code |-> "too_big", message |-> schema.maxValue[1].message]

\* The violated constraints, as places of an order of the constraints.
ViolatedIn(order, schema, k) ==
    { i \in 1..Len(order) : NumberViolated(schema, order[i], k) }

\* The outcome of a number schema on a data that converts to the number
\* num when the constraints are checked in the given order.
NumberOutcomeIn(order, schema, num, out) ==
    IF num.nan
    THEN ~out.ok /\ Len(out.issues) = 1 /\ out.issues[1].code = "invalid_type"
         /\ out.issues[1].path = <<>>
    ELSE IF ViolatedIn(order, schema, num.tenths) = {}
    THEN out = Returned(NumberOfTenths(num.tenths))
    ELSE /\ ~out.ok
         /\ Len(out.issues) = 1
         /\ out.issues[1].path = <<>>
         /\ out.issues[1].code =
               NumberIssue(order[Min(ViolatedIn(order, schema, num.tenths))], schema).code
         /\ out.issues[1].message =
               NumberIssue(order[Min(ViolatedIn(order, schema, num.tenths))], schema).message

NumberParsed == LastWas("parse") /\ last.schema.kind = "number" /\ Convertible(last.data)

\* C24 as stated: not a number is invalid_type, and otherwise the first
\* violated constraint in the order integer, positive, negative, min, max
\* is the one issue.
C24_OrderAsClaimed ==
    NumberParsed =>
        NumberOutcomeIn(<<"integer", "positive", "negative", "min", "max">>,
                        last.schema, ToNumber(last.data), last.outcome)

\* C24: not a number is invalid_type, and otherwise the first violated
\* constraint in the order integer, min, max, positive, negative is the one
\* issue; with none violated the number is returned.
C24_OrderOfTheChecks ==
    NumberParsed =>
        NumberOutcomeIn(<<"integer", "min", "max", "positive", "negative">>,
                        last.schema, ToNumber(last.data), last.outcome)

\* 3 against z.number().min(5).negative(): below the minimum and not
\* negative; the issue is the minimum's.
C24_Witness ==
    /\ LastWas("parse")
    /\ last.schema = NumNegative(NumMin(NumberSchema, 5))
    /\ last.data = VNumber(3)
    /\ ~last.outcome.ok
    /\ last.outcome.issues =
          <<[path |-> <<>>,
             message |-> [text |-> "Number must be at least ${value}", value |-> 5],
             code |-> "too_small"]>>

\* String.prototype.toLowerCase on the letters of the model's strings.
UpperLetters == <<"A", "E", "F", "L", "N", "O", "R", "S", "T", "U", "Y">>
LowerLetters == <<"a", "e", "f", "l", "n", "o", "r", "s", "t", "u", "y">>
LowerChar(c) ==
    IF \E i \in 1..Len(UpperLetters) : UpperLetters[i] = c
    THEN LowerLetters[CHOOSE i \in 1..Len(UpperLetters) : UpperLetters[i] = c]
    ELSE c
ToLowerCase(s) == [i \in 1..Len(s) |-> LowerChar(s[i])]

\* One issue of the given code and of empty path.
OneIssue(out, code) ==
    /\ ~out.ok
    /\ IsValidationError(out)
    /\ Len(out.issues) = 1
    /\ out.issues[1].code = code
    /\ out.issues[1].path = <<>>

\* C25 as stated: a boolean schema returns true for an input whose string
\* is "true" or "1" whatever the case of its letters, false for "false" or
\* "0", and fails with one invalid_type issue for every other input.
C25_BooleanAsClaimed ==
    (LastWas("parse") /\ last.schema.kind = "boolean" /\ Convertible(last.data)) =>
        IF ToLowerCase(StringOf(last.data)) \in {<<"t", "r", "u", "e">>, <<"1">>}
        THEN last.outcome = Returned(VBoolean(TRUE))
        ELSE IF ToLowerCase(StringOf(last.data)) \in {<<"f", "a", "l", "s", "e">>, <<"0">>}
        THEN last.outcome = Returned(VBoolean(FALSE))
        ELSE OneIssue(last.outcome, "invalid_type")

\* C26 as stated: an enum schema succeeds exactly when the string of the
\* input is one of the declared values, and fails otherwise with one
\* invalid_enum_value issue.
C26_EnumAsClaimed ==
    (LastWas("parse") /\ last.schema.kind = "enum" /\ Convertible(last.data)) =>
        IF \E i \in 1..Len(last.schema.values) :
              last.schema.values[i] = VString(StringOf(last.data))
        THEN last.outcome.ok
        ELSE OneIssue(last.outcome, "invalid_enum_value")

-----------------------------------------------------------------------------
(* The middlewares of the matched route, under Spec.                        *)

\* The last dispatch matched a route and no declared section failed: the
\* route's middlewares are next.
RoutePhase ==
    Selected # <<>> /\ FailingSections(last.request, Selected[1]) = {}

\* The places of the matched route's middleware list whose middleware
\* returns a response in the last dispatch.
RouteResponders ==
    { i \in 1..Len(Selected[1].middlewares) :
        Selected[1].middlewares[i] \in last.responders }

\* The place in the record of the i-th call of a route middleware.
RouteCallAt(i) ==
    CHOOSE k \in Calls(last.log, "route") :
        Cardinality({j \in Calls(last.log, "route") : j < k}) = i - 1

\* The first n middlewares of the route were called, each once, in list
\* order, one after the other, after every schema.
RouteCallsAre(n) ==
    /\ Cardinality(Calls(last.log, "route")) = n
    /\ \A i \in 1..n :
          /\ last.log[RouteCallAt(i)].fn = Selected[1].middlewares[i]
          /\ RouteCallAt(i) = RouteCallAt(1) + i - 1
    /\ \A k \in Calls(last.log, "route") :
          \A e \in Events(last.log, "safeParse") \cup Events(last.log, "findMatchingRoute") : e < k

\* C28: after validation the middlewares of the matched route are called
\* one after the other in list order; the first that returns a response
\* ends the dispatch with it, no later middleware and no handler being
\* called, and the handler is called, once, only after every middleware of
\* the route has returned nothing.
C28_RouteMiddlewaresInOrder ==
    RoutePhase =>
        IF RouteResponders = {}
        THEN /\ RouteCallsAre(Len(Selected[1].middlewares))
             /\ Cardinality(Calls(last.log, "handler")) = 1
             /\ \A h \in Calls(last.log, "handler") :
                   /\ last.log[h].fn = Selected[1].requestListener
                   /\ \A k \in Calls(last.log, "route") : k < h
        ELSE /\ RouteCallsAre(Min(RouteResponders))
             /\ last.response = CallbackResponse(Selected[1].middlewares[Min(RouteResponders)])
             /\ Calls(last.log, "handler") = {}
             /\ Calls(last.log, "notFound") = {}
             /\ Len(last.log) = RouteCallAt(Min(RouteResponders))

\* GET /a/static matched the route of middlewares r1 and r2; r1 returns
\* nothing, r2 answers, and the handler, ready to answer, is not called.
C28_Witness ==
    /\ RoutePhase
    /\ Selected[1].middlewares = <<"r1", "r2">>
    /\ last.responders = {"r2"} \cup Handlers
    /\ Cardinality(Calls(last.log, "route")) = 2
    /\ last.response = CallbackResponse("r2")
    /\ Calls(last.log, "handler") = {}

-----------------------------------------------------------------------------
(* JsonToken: sign and verify.  A token, a secret and a digest are strings  *)
(* of characters; the JSON text of a payload is a string of character       *)
(* codes, as btoa and atob work on them.                                    *)

\* The alphabet of Base64URL, value 0 first.
Base64Url ==
    <<"A", "B", "C", "D", "E", "F", "G", "H", "I", "J", "K", "L", "M", "N", "O", "P",
      "Q", "R", "S", "T", "U", "V", "W", "X", "Y", "Z", "a", "b", "c", "d", "e", "f",
      "g", "h", "i", "j", "k", "l", "m", "n", "o", "p", "q", "r", "s", "t", "u", "v",
      "w", "x", "y", "z", "0", "1", "2", "3", "4", "5", "6", "7", "8", "9", "-", "_">>

IsBase64Url(c) == \E v \in 1..64 : Base64Url[v] = c
Base64Value(c) == (CHOOSE v \in 1..64 : Base64Url[v] = c) - 1

\* Bit i (from 0, most significant first) of a sequence of units of the
\* given width; past the end the bits are 0.
BitAt(units, width, i) ==
    IF i >= width * Len(units) THEN 0
    ELSE (units[(i \div width) + 1] \div (2 ^ (width - 1 - (i % width)))) % 2

\* The unit of the given width that starts at bit i of the units of width
\* from.
RECURSIVE Regroup(_, _, _, _, _)
Regroup(units, from, i, width, left) ==
    IF left = 0 THEN 0
    ELSE BitAt(units, from, i) * (2 ^ (left - 1)) + Regroup(units, from, i + 1, width, left - 1)

\* StringHelper.encodeBase64Url(data): btoa, + and / replaced, no padding;
\* each six bits of the bytes, the last ones filled with zeros.
encodeBase64Url(bytes) ==
    [j \in 1..((8 * Len(bytes) + 5) \div 6) |->
        Base64Url[Regroup(bytes, 8, 6 * (j - 1), 6, 6) + 1]]

\* StringHelper.decodeBase64Url(data): atob of the padded data throws for
\* a character outside the alphabet and for a length of 1 modulo 4, and
\* otherwise gives the whole bytes of the six-bit values, the bits left
\* over dropped.  <<>> stands for the throw, <<bytes>> for the result.
decodeBase64Url(data) ==
    IF (\E i \in 1..Len(data) : ~IsBase64Url(data[i])) \/ Len(data) % 4 = 1 THEN <<>>
    ELSE <<[j \in 1..((6 * Len(data)) \div 8) |->
               Regroup([i \in 1..Len(data) |-> Base64Value(data[i])], 6, 8 * (j - 1), 8, 8)]>>

\* The codes of the characters of JSON texts.
CodeOfDigit(d) == 48 + d
JsonWhitespace == {9, 10, 13, 32}
CodesOfNull == <<110, 117, 108, 108>>

\* JSON.stringify(payload) for null and the natural numbers.
RECURSIVE JsonStringify(_)
JsonStringify(v) ==
    IF v.t = "null" THEN CodesOfNull
    ELSE IF v.n < 10 THEN <<CodeOfDigit(v.n)>>
    ELSE JsonStringify(VNumber(v.n \div 10)) \o <<CodeOfDigit(v.n % 10)>>

\* The text without the white space JSON allows around a value.
RECURSIVE JsonTrim(_)
JsonTrim(text) ==
    IF text # <<>> /\ text[1] \in JsonWhitespace THEN JsonTrim(Tail(text))
    ELSE IF text # <<>> /\ text[Len(text)] \in JsonWhitespace
    THEN JsonTrim(SubSeq(text, 1, Len(text) - 1))
    ELSE text

RECURSIVE CodesValue(_)
CodesValue(codes) ==
    IF codes = <<>> THEN 0
    ELSE 10 * CodesValue(SubSeq(codes, 1, Len(codes) - 1)) + (codes[Len(codes)] - 48)

\* JSON.parse(text) on the texts of this model: null and the natural
\* numbers (no leading zero), white space around them allowed; every other
\* text of the model is no JSON and makes it throw.  <<>> stands for the
\* throw, <<value>> for the result.
JsonParseTrimmed(codes) ==
    IF codes = CodesOfNull THEN <<VNull>>
    ELSE IF /\ codes # <<>>
            /\ \A i \in 1..Len(codes) : codes[i] \in 48..57
            /\ (Len(codes) > 1 => codes[1] # 48)
    THEN <<VNumber(CodesValue(codes))>>
    ELSE <<>>
JsonParse(text) == JsonParseTrimmed(JsonTrim(text))

\* CryptoHelper.sha256(payload): a digest that no two inputs share.
sha256(payload) == <<"#">> \o payload

\* JsonToken.constantTimeCompare(a, b): equal lengths and no differing
\* character.
constantTimeCompare(a, b) ==
    Len(a) = Len(b) /\ \A i \in 1..Len(a) : a[i] = b[i]

\* String.prototype.split(".").
RECURSIVE SplitDots(_, _, _)
SplitDots(str, i, cur) ==
    IF i > Len(str) THEN <<cur>>
    ELSE IF str[i] = DOT THEN <<cur>> \o SplitDots(str, i + 1, <<>>)
    ELSE SplitDots(str, i + 1, Append(cur, str[i]))

\* JsonToken.sign(jsonPayload) with this.secret = secret.
sign(secret, jsonPayload) ==
    encodeBase64Url(JsonStringify(jsonPayload)) \o <<DOT>>
        \o sha256(encodeBase64Url(JsonStringify(jsonPayload)) \o secret)

\* The body of JsonToken.verify on parts = token.split("."): payload and
\* signature are the first two parts, whatever follows them; a throw of
\* atob or JSON.parse is caught and null returned.
verifyParts(secret, parts) ==
    IF parts[1] = <<>> \/ Len(parts) < 2 \/ parts[2] = <<>> THEN VNull
    ELSE IF ~constantTimeCompare(parts[2], sha256(parts[1] \o secret)) THEN VNull
    ELSE IF decodeBase64Url(parts[1]) = <<>> THEN VNull
    ELSE IF JsonParse(decodeBase64Url(parts[1])[1]) = <<>> THEN VNull
    ELSE JsonParse(decodeBase64Url(parts[1])[1])[1]

\* JsonToken.verify(token) with this.secret = secret.
verify(secret, token) == verifyParts(secret, SplitDots(token, 1, <<>>))

\* The secrets: "s", "ks" and "t".
Secrets == { <<"s">>, <<"k", "s">>, <<"t">> }

\* The payloads: 1, 7 and 12.
TokenPayloads == { VNumber(1), VNumber(7), VNumber(12) }

SignedTokens == { sign(secret, payload) : secret \in Secrets, payload \in TokenPayloads }

\* The first part of a token and the rest after its first dot.
PayloadPart(token) == SplitDots(token, 1, <<>>)[1]
SignaturePart(token) == SubSeq(token, Len(PayloadPart(token)) + 2, Len(token))

\* The signed tokens and what can be made of them: a further part, the
\* signature missing, empty or one character longer, the payload of
\* another token, a payload one character longer or shorter, and tokens
\* that are no tokens at all.
TokenInputs ==
    SignedTokens
    \cup { t \o <<DOT, "x">> : t \in SignedTokens }
    \cup { PayloadPart(t) : t \in SignedTokens }
    \cup { PayloadPart(t) \o <<DOT>> : t \in SignedTokens }
    \cup { t \o <<"0">> : t \in SignedTokens }
    \cup { PayloadPart(t) \o <<DOT>> \o SignaturePart(u) : t, u \in SignedTokens }
    \cup { PayloadPart(t) \o <<c>> \o <<DOT>> \o SignaturePart(t) :
             t \in SignedTokens, c \in {"k", "!"} }
    \cup { <<"M">> \o <<DOT>> \o sha256(<<"M">> \o secret) : secret \in Secrets }
    \cup { <<"!", "!">> \o <<DOT>> \o sha256(<<"!", "!">> \o secret) : secret \in Secrets }
    \cup { <<"M", "Q", "A", "x">> \o <<DOT>> \o sha256(<<"M", "Q", "A", "x">> \o secret) :
             secret \in Secrets }
    \cup { <<>>, <<DOT>>, <<DOT, DOT>> }

\* new JsonToken(secret).sign(payload) called.
Sign(secret, payload) ==
    /\ last = NoDispatch
    /\ last' = [op |-> "sign", secret |-> secret, payload |-> payload,
                result |-> sign(secret, payload)]
    /\ UNCHANGED <<routers, notFoundHandler, listening, lastCall, mountLog, matchVars, inFlight>>

\* new JsonToken(secret).verify(token) called.
Verify(secret, token) ==
    /\ last = NoDispatch
    /\ last' = [op |-> "verify", secret |-> secret, token |-> token,
                result |-> verify(secret, token)]
    /\ UNCHANGED <<routers, notFoundHandler, listening, lastCall, mountLog, matchVars, inFlight>>

NextToken ==
    \/ \E secret \in Secrets, payload \in TokenPayloads : Sign(secret, payload)
    \/ \E secret \in Secrets, token \in TokenInputs : Verify(secret, token)

SpecToken == Init /\ [][NextToken]_vars

\* The payloads whose signed token under the secret is the token.
SignedPayloads(secret, token) ==
    { payload \in TokenPayloads : sign(secret, payload) = token }

\* C27 as stated: verify returns the payload when the token is what sign
\* gives for it under the same secret, and null for every other token.
C27_VerifyAsClaimed ==
    LastWas("verify") =>
        IF SignedPayloads(last.secret, last.token) # {}
        THEN last.result \in SignedPayloads(last.secret, last.token)
        ELSE last.result = VNull

-----------------------------------------------------------------------------
(* Dispatches in flight: requestListener between its awaits.                *)
(*                                                                          *)
(* A call of requestListener runs alone from one await to the next; the     *)
(* awaits are where the calls in flight take turns.  What it awaits is the  *)
(* decoding of the body, each middleware, the handler and the not-found     *)
(* handler.  req and res are locals of the call.                            *)

\* const req = new HttpRequest(...), const res = new HttpResponse(): the
\* call d keeps what it has reached in its own locals.
StoreShared(flight, d, f) ==
    [e \in DOMAIN flight |->
        IF e = d THEN f
        ELSE IF flight[e].pc = "idle" THEN flight[e]
        ELSE [flight[e] EXCEPT !.req = f.req]]

Store(flight, d, f) == [flight EXCEPT ![d] = f]

\* The call as it begins, before anything is awaited.
NewFlight(request, responders) ==
    [pc |-> "body", request |-> request, responders |-> responders,
     req |-> HttpRequest(normalizePath(<<request.pathname>>), request.method,
                 IF request.method = "GET" THEN VNull ELSE request.body, request.query),
     response |-> Nothing, log |-> <<>>, route |-> <<>>, i |-> 0]

\* return of requestListener, or the error thrown out of it.
Settled(f, response) == [f EXCEPT !.pc = "done", !.response = response]

\* executeMiddlewares at its i-th middleware: the middleware is called and
\* awaited; the list exhausted, the null it returns is awaited.
CallMiddleware(f, middlewares, kind, i) ==
    IF i <= Len(middlewares)
    THEN [f EXCEPT !.pc = kind, !.i = i,
                   !.log = Append(@, Called(kind, middlewares[i], f.req))]
    ELSE [f EXCEPT !.pc = kind, !.i = i]

\* await this.notFoundHandler(req, res).
CallNotFound(notFound, f) ==
    [f EXCEPT !.pc = "notFound", !.log = Append(@, Called("notFound", notFound, f.req))]

\* The not-found handler has returned: its response || the built-in 404.
ResumeNotFound(f) ==
    Settled(f, IF f.log[Len(f.log)].fn # "default" /\ f.log[Len(f.log)].fn \in f.responders
               THEN CallbackResponse(f.log[Len(f.log)].fn)
               ELSE Response404)

\* The handler has returned: its response || await this.handleNotFound.
ResumeHandler(notFound, f) ==
    IF f.route[1].requestListener \in f.responders
    THEN Settled(f, CallbackResponse(f.route[1].requestListener))
    ELSE CallNotFound(notFound, f)

\* A middleware of the route has returned: its response ends the call, or
\* the next is called, or, after the last, the handler.
ResumeRoute(notFound, f) ==
    IF f.i <= Len(f.route[1].middlewares) /\ f.route[1].middlewares[f.i] \in f.responders
    THEN Settled(f, CallbackResponse(f.route[1].middlewares[f.i]))
    ELSE IF f.i < Len(f.route[1].middlewares)
    THEN CallMiddleware(f, f.route[1].middlewares, "route", f.i + 1)
    ELSE [f EXCEPT !.pc = "handler",
                   !.log = Append(@, Called("handler", f.route[1].requestListener, f.req))]

\* The schemas of the route having run as v says: the 400 or the error ends
\* the call, otherwise the route's middlewares begin.
Validated(route, f, v) ==
    IF v.response # Nothing
    THEN [f EXCEPT !.pc = "done", !.response = v.response, !.log = @ \o v.log,
                   !.req = v.req, !.route = <<route>>]
    ELSE CallMiddleware([f EXCEPT !.log = @ \o v.log, !.req = v.req, !.route = <<route>>],
                        route.middlewares, "route", 1)

\* The route looked up, found being what findMatchingRoute returned, with
\* the lookup on the record.
Found(notFound, f, found) ==
    IF found = <<>> THEN CallNotFound(notFound, f)
    ELSE Validated(found[1], f,
             ValidateRoute(found[1],
                 [f.req EXCEPT !.params =
                     ObjectAssign(@, StringValues(extractRouteParams(f.req.url, found[1].url)))]))

\* No global middleware responded: the empty 200 of OPTIONS, or the lookup.
AfterGlobal(server, notFound, f) ==
    IF f.req.method = "OPTIONS" THEN Settled(f, ResponseEmpty200)
    ELSE Found(notFound,
               [f EXCEPT !.log = Append(@,
                    [ev |-> "findMatchingRoute",
                     found |-> findMatchingRoute(server, f.req.method, f.req.url)])],
               findMatchingRoute(server, f.req.method, f.req.url))

\* A global middleware has returned.
ResumeGlobal(server, notFound, f) ==
    IF f.i <= Len(server.middlewares) /\ server.middlewares[f.i] \in f.responders
    THEN Settled(f, CallbackResponse(server.middlewares[f.i]))
    ELSE IF f.i < Len(server.middlewares)
    THEN CallMiddleware(f, server.middlewares, "global", f.i + 1)
    ELSE AfterGlobal(server, notFound, f)

\* requestListener from its entry to its first await: a GET has no body to
\* decode and goes on to the global middlewares.
Begin(server, f) ==
    IF f.request.method = "GET" THEN CallMiddleware(f, server.middlewares, "global", 1)
    ELSE f

\* requestListener from the await it is resumed at to the next.
Advance(server, notFound, f) ==
    CASE f.pc = "body" -> CallMiddleware(f, server.middlewares, "global", 1)
      [] f.pc = "global" -> ResumeGlobal(server, notFound, f)
      [] f.pc = "route" -> ResumeRoute(notFound, f)
      [] f.pc = "handler" -> ResumeHandler(notFound, f)
      [] f.pc = "notFound" -> ResumeNotFound(f)

\* Deno.serve calls requestListener for a request, other calls being in
\* flight or not.
Arrive(d, request, responders) ==
    /\ listening
    /\ inFlight[d].pc = "idle"
    /\ inFlight' = Store(inFlight, d, Begin(routers["S"], NewFlight(request, responders)))
    /\ UNCHANGED <<serverVars, matchVars>>

\* The call d is in flight and has not ended: it awaits something.
Awaiting(d) == inFlight[d].pc \notin {"idle", "done"}

\* What the call d awaits has returned: the call runs to its next await or
\* to its end.
Resume(d) ==
    /\ Awaiting(d)
    /\ inFlight' = Store(inFlight, d, Advance(routers["S"], notFoundHandler, inFlight[d]))
    /\ UNCHANGED <<serverVars, matchVars>>

\* The promise of the call d is settled and Deno.serve has taken its result.
Deliver(d) ==
    /\ inFlight[d].pc = "done"
    /\ inFlight' = [inFlight EXCEPT ![d] = Idle]
    /\ UNCHANGED <<serverVars, matchVars>>

\* { "toString": null } as JSON.parse returns it.
NoToStringBody == VObject([n \in {KeyToString} |-> VNull])

\* The server the calls are made on: use(g1), get("/a/:id", h1, [r1],
\* { params: z.object({ id: z.string().min(2) }) }) and post("/users", h4,
\* [], { body: z.string().min(2) }), with a custom not-found handler.
FlightServer ==
    useMiddleware(
        addRoute(
            addRoute(NewRouter(Root),
                Route("GET", PathAId, "h1", <<"r1">>, Schemas(<<>>, <<IdSchema>>, <<>>))).router,
            Route("POST", PathUsers, "h4", <<>>, Schemas(<<>>, <<>>, <<LeafSchema>>))).router,
        "g1")

\* A request and the callbacks that answer when called for it.
Call(request, responders) == [request |-> request, responders |-> responders]

\* The calls made: a route matched with params that pass (and each kind of
\* callback answering or none) or fail, a miss, a body that passes, a body
\* String() cannot convert, and a preflight.
FlightCalls ==
    { Call(Request("GET", PathAXY, EmptyRecord, VNull), rs) :
          rs \in { {}, {"g1"}, {"r1"}, Handlers } }
    \cup { Call(Request("GET", PathAX, EmptyRecord, VNull), {}) }
    \cup { Call(Request("GET", PathUsers, EmptyRecord, VNull), rs) : rs \in { {}, {"custom"} } }
    \cup { Call(Request("POST", PathUsersRaw, EmptyRecord, VString(<<"a", "b", "c">>)), rs) :
              rs \in { {}, Handlers } }
    \cup { Call(Request("POST", PathUsers, EmptyRecord, NoToStringBody), {}) }
    \cup { Call(Request("OPTIONS", PathAXY, EmptyRecord, VNull), rs) : rs \in { {}, {"g1"} } }

InitInFlight ==
    /\ routers = [r \in RouterIds |-> IF r = "S" THEN FlightServer ELSE NewRouter(Root)]
    /\ notFoundHandler = "custom"
    /\ listening = TRUE
    /\ lastCall = [op |-> "listen"]
    /\ mountLog = {}
    /\ last = NoDispatch
    /\ inFlight = NoneInFlight
    /\ MatcherIdle

NextInFlight ==
    \/ \E d \in DispatchIds, call \in FlightCalls : Arrive(d, call.request, call.responders)
    \/ \E d \in DispatchIds : Resume(d)
    \/ \E d \in DispatchIds : Deliver(d)

\* Resume(d) can be taken exactly when the call d awaits, and taking it
\* changes inFlight.
ResumeAdvances ==
    \A d \in DispatchIds :
        Awaiting(d) => Advance(routers["S"], notFoundHandler, inFlight[d]) # inFlight[d]

\* Weak fairness of Resume(d), WF_vars(Resume(d)), with ENABLED
\* <<Resume(d)>>_vars written as Awaiting(d): a call is not left awaiting
\* for ever.
ResumedInTheEnd(d) == []<>(~Awaiting(d)) \/ []<><<Resume(d)>>_vars

\* Every middleware, handler and not-found handler that was called returns:
\* a call in flight is resumed in the end.
SpecInFlight ==
    InitInFlight /\ [][NextInFlight]_vars /\ \A d \in DispatchIds : ResumedInTheEnd(d)

\* The call d made with nothing else in flight: requestListener run from its
\* entry to its return on the same request with the same callbacks.
Alone(d) ==
    requestListener(routers["S"], notFoundHandler, inFlight[d].request, inFlight[d].responders)

InFlightIds == {d \in DispatchIds : inFlight[d].pc # "idle"}
DoneIds == {d \in DispatchIds : inFlight[d].pc = "done"}

IsPrefix(s, t) == Len(s) <= Len(t) /\ SubSeq(t, 1, Len(s)) = s

\* C29: provided every middleware, handler and not-found handler that is
\* called returns without raising, every dispatch ends, and ends with one
\* Response: a miss, a failed validation, a handler or a custom not-found
\* handler returning nothing all give a Response, none raises to the caller
\* and none gives "no response".
C29_DispatchAsClaimed ==
    /\ [](\A d \in DoneIds : IsResponse(inFlight[d].response))
    /\ [](\A d \in InFlightIds \ DoneIds : inFlight[d].response = Nothing)
    /\ \A d \in DispatchIds : (inFlight[d].pc # "idle") ~> (inFlight[d].pc = "done")

\* What holds of every dispatch: it ends, with nothing given before its end,
\* and it ends with a Response unless a schema threw an error that is not a
\* ValidationError, which is then what the caller gets.
DispatchEndsOnce ==
    /\ [](\A d \in DoneIds :
             \/ IsResponse(inFlight[d].response)
             \/ /\ inFlight[d].response = Rejected(TypeError)
                /\ inFlight[d].log[Len(inFlight[d].log)].ev = "safeParse")
    /\ [](\A d \in InFlightIds \ DoneIds : inFlight[d].response = Nothing)
    /\ \A d \in DispatchIds : (inFlight[d].pc # "idle") ~> (inFlight[d].pc = "done")

\* A dispatch has ended on the error of a schema.
DispatchRejected ==
    \E d \in DoneIds :
        /\ inFlight[d].response = Rejected(TypeError)
        /\ inFlight[d].request.body = NoToStringBody

\* C30: however the calls in flight take turns at their awaits, each leaves
\* the registry, the global middlewares, the schemas and the not-found
\* handler as they were, and what it has done so far (the callbacks called
\* and the request each was given) is what it does when made alone; at its
\* end its response and its req.params, req.query and req.body are those of
\* the call made alone.
C30_InterleavingIsInvisible ==
    /\ routers["S"] = FlightServer
    /\ notFoundHandler = "custom"
    /\ \A d \in InFlightIds : IsPrefix(inFlight[d].log, Alone(d).log)
    /\ \A d \in DoneIds :
          /\ inFlight[d].response = Alone(d).response
          /\ inFlight[d].req = Alone(d).req
          /\ inFlight[d].log = Alone(d).log

\* Two calls in flight at once: one has ended with its handler's response,
\* its params validated, while the other, with another request, awaits its
\* handler.
C30_Witness ==
    \E d \in DoneIds, e \in InFlightIds :
        /\ inFlight[d].response = CallbackResponse("h1")
        /\ inFlight[d].req.params = StringValues([n \in {KeyId} |-> <<"x", "y">>])
        /\ inFlight[e].pc = "handler"
        /\ inFlight[e].req.body = VString(<<"a", "b", "c">>)

-----------------------------------------------------------------------------
(* SpecRegistry: the registry under every registration call, with           *)
(* mountRouter taken one turn of its loops at a time.                       *)
(*                                                                          *)
(* The loops of mountRouter run over the arrays of the mounted router as    *)
(* they stand at each turn; when the mounted router is the mounting one,    *)
(* the array being read is the array addRoute pushes to.                    *)

\* The most routes the two routers of a mount hold together when it begins.
MaxStored == MaxRoutes + 1

\* this.mountRouter(router, prefix) at the turn (k, i) of its loops: before
\* is this registry and held the number of routes of the argument as the
\* call began.
Mounting(p, prefix, c, k, i, before, held) ==
    [op |-> "mounting", router |-> p, prefix |-> prefix, arg |-> c, k |-> k, i |-> i,
     before |-> before, held |-> held]

\* The call has returned or thrown.
MountEnded(call, threw) ==
    [op |-> "mount", router |-> call.router, prefix |-> call.prefix, arg |-> call.arg,
     threw |-> threw, before |-> call.before, held |-> call.held]

\* No call of mountRouter is running: registration calls run one at a time.
NoMountRunning == lastCall.op # "mounting"

\* The place of the next route the two loops visit from (k, i) on: the i-th
\* route of the k-th method, or <<>> when both loops are over.
RECURSIVE NextRouteAt(_, _, _)
NextRouteAt(router, k, i) ==
    IF k > Len(HttpMethods) THEN <<>>
    ELSE IF i <= Len(router.routes[HttpMethods[k]]) THEN <<k, i>>
    ELSE NextRouteAt(router, k + 1, 1)

\* p.use(prefix, c), p.use(c): the call begins.
MountBegin(p, prefix, c) ==
    /\ ~listening
    /\ NoMountRunning
    /\ RouteCount(routers[p]) + RouteCount(routers[c]) <= MaxStored
    /\ lastCall' = Mounting(p, prefix, c, 1, 1, routers[p], RouteCount(routers[c]))
    /\ UNCHANGED <<routers, notFoundHandler, listening, mountLog, last, matchVars, inFlight>>

\* One turn, r being what this.addRoute did with the route at pos.
MountTurnDone(call, pos, r) ==
    IF r.threw
    THEN lastCall' = MountEnded(call, TRUE) /\ UNCHANGED routers
    ELSE /\ routers' = [routers EXCEPT ![call.router] = r.router]
         /\ lastCall' = [call EXCEPT !.k = pos[1], !.i = pos[2] + 1]

\* One turn of the loops from the place pos, or their end.
MountTurnAt(call, pos) ==
    IF pos = <<>>
    THEN lastCall' = MountEnded(call, FALSE) /\ UNCHANGED routers
    ELSE MountTurnDone(call, pos,
             addRoute(routers[call.router],
                 MountedRoute(routers[call.arg], call.prefix,
                     routers[call.arg].routes[HttpMethods[pos[1]]][pos[2]])))

\* The call can take a turn: the registry of the model has room.
MountRunning ==
    /\ lastCall.op = "mounting"
    /\ RouteCount(routers[lastCall.router]) <= MaxStored

\* for (const routes of router.routes.values()) for (const route of routes)
\* this.addRoute(...): one turn.
MountTurn ==
    /\ MountRunning
    /\ MountTurnAt(lastCall, NextRouteAt(routers[lastCall.arg], lastCall.k, lastCall.i))
    /\ UNCHANGED <<notFoundHandler, listening, mountLog, last, matchVars, inFlight>>

\* r.get(...) and the like, no mount running.
RegisterRoute(r, route) == NoMountRunning /\ AddRoute(r, route)

\* r.use(middleware), no mount running.
RegisterMiddleware(r, middleware) == NoMountRunning /\ UseMiddleware(r, middleware)

\* Routes registered under a url spelled in two ways and under a url with
\* an empty segment.
RegistryRouteInputs ==
    { Route("GET", PathX, "h1", <<>>, NoSchemas),
      Route("GET", PathXRaw, "h2", <<"r1">>, NoSchemas),
      Route("POST", PathAXRaw, "h3", <<"r2">>, NoSchemas) }

NextRegistry ==
    \/ \E r \in RouterIds, route \in RegistryRouteInputs : RegisterRoute(r, route)
    \/ RegisterMiddleware("C", "c1")
    \/ \E p \in RouterIds, c \in RouterIds, prefix \in Prefixes : MountBegin(p, prefix, c)
    \/ MountTurn

\* Weak fairness of MountTurn, WF_vars(MountTurn), with ENABLED
\* <<MountTurn>>_vars written as MountRunning (a turn always changes
\* lastCall): the loops are not left between two turns for ever.
MountGoesOn == []<>(~MountRunning) \/ []<><<MountTurn>>_vars

SpecRegistry == InitRouter /\ [][NextRegistry]_vars /\ MountGoesOn

\* The routes this call of mountRouter has added so far.
AddedByMount == RouteCount(routers[lastCall.router]) - RouteCount(lastCall.before)

\* A stored url begins with "/", has no empty segment and, the root apart,
\* no trailing slash.
WellFormedUrl(url) ==
    /\ Len(url) >= 1
    /\ url[1] = SLASH
    /\ Len(url) > 1 => url[Len(url)] # SLASH
    /\ \A j \in 1..(Len(url) - 1) : ~(url[j] = SLASH /\ url[j + 1] = SLASH)

\* C31: after any sequence of route registrations, use(middleware) calls and
\* mounts, failed ones included, every url of every router's registry begins
\* with "/", has no empty segment and no trailing slash except the root,
\* and no two routes of one method's list have the same url.
C31_RegistryWellFormed ==
    \A r \in RouterIds, m \in HttpMethodSet :
        /\ \A i \in 1..Len(routers[r].routes[m]) : WellFormedUrl(routers[r].routes[m][i].url)
        /\ \A i, j \in 1..Len(routers[r].routes[m]) :
              routers[r].routes[m][i].url = routers[r].routes[m][j].url => i = j

\* A mount has thrown after adding a route, into a router that uses a
\* middleware and holds a route registered under a url with empty segments.
C31_Witness ==
    /\ lastCall.op = "mount"
    /\ lastCall.threw
    /\ AddedByMount >= 1
    /\ routers["C"].middlewares # <<>>
    /\ \E m \in HttpMethodSet : \E i \in 1..Len(routers["C"].routes[m]) :
          routers["C"].routes[m][i].requestListener \in {"h2", "h3"}

\* C34: when P.use(prefix, C) throws because a route of C collides with a
\* route of P, the registry of P is what it was before the call: no route
\* copied before the collision stays.
C34_FailedMountLeavesNothing ==
    (lastCall.op = "mount" /\ lastCall.threw) =>
        routers[lastCall.router] = lastCall.before

\* C35: use(prefix, router) ends for every router argument, the mounting
\* router itself under a prefix other than the root included, and adds to
\* the mounting router at most as many routes as the argument held when the
\* call began.
C35_MountAsClaimed ==
    /\ [](lastCall.op \in {"mounting", "mount"} => AddedByMount <= lastCall.held)
    /\ (lastCall.op = "mounting") ~> (lastCall.op = "mount")

\* What holds of a router mounted into another one: the call ends, having
\* added at most the routes the argument held.
MountOfAnotherEnds ==
    /\ [](lastCall.op \in {"mounting", "mount"} /\ lastCall.router # lastCall.arg
             => AddedByMount <= lastCall.held)
    /\ (lastCall.op = "mounting" /\ lastCall.router # lastCall.arg) ~> (lastCall.op = "mount")

\* A router mounted into itself has added more routes than it held and the
\* loops are still running.
SelfMountRunsOn ==
    /\ lastCall.op = "mounting"
    /\ lastCall.router = lastCall.arg
    /\ lastCall.prefix # Root
    /\ AddedByMount > lastCall.held

\* Taken one turn at a time, the mount of another router ends as
\* mountRouter says.
MountTurnsAgree ==
    (lastCall.op = "mount" /\ lastCall.router # lastCall.arg) =>
        /\ routers[lastCall.router] =
              mountRouter(lastCall.before, routers[lastCall.arg], lastCall.prefix).router
        /\ lastCall.threw =
              mountRouter(lastCall.before, routers[lastCall.arg], lastCall.prefix).threw

-----------------------------------------------------------------------------
(* The path matcher against the segment-by-segment reading, under SpecMatch. *)

\* C33: the matcher accepts a pattern and a normalized path if and only if
\* both have as many segments, every literal segment of the pattern equals
\* the path's segment at its place character for character, and every
\* ":name" segment faces a non-empty segment; no character of a literal
\* segment acts as a wildcard or an operator.
C33_MatchAsClaimed ==
    mPc # "input" => ((mPc = "matched") <=> StructMatch(mPattern, mPath))

\* A pattern with no "." in it.
HasNoDot(url) == \A i \in 1..Len(url) : url[i] # DOT

\* What holds: the two agree on every pattern without a regular-expression
\* metacharacter, and a pattern accepted segment by segment is accepted by
\* the matcher.
MatchWithoutMetacharacters ==
    mPc # "input" =>
        /\ HasNoDot(mPattern) => ((mPc = "matched") <=> StructMatch(mPattern, mPath))
        /\ mPc = "rejected" => ~StructMatch(mPattern, mPath)

-----------------------------------------------------------------------------
(* SpecMethods: requests whose method has no list of routes.                *)

\* HEAD and TRACE requests for paths a GET or POST route is registered
\* under, and the same paths asked with GET.
MethodRequests ==
    { Request(method, pathname, EmptyRecord, VNull) :
        method \in {"HEAD", "TRACE", "GET"}, pathname \in {PathAStatic, PathUsersRaw, PathAX} }

NextMethods ==
    \/ \E route \in RouteInputs : AddRoute("S", route)
    \/ \E m \in RouterMiddlewares : UseMiddleware("S", m)
    \/ NotFound
    \/ Listen
    \/ \E request \in MethodRequests, responders \in ResponderSets :
          HandleRequest(request, responders)
    \/ Respond

SpecMethods == Init /\ [][NextMethods]_vars

\* The last dispatch is of a request whose method is neither OPTIONS nor one
\* of the registered five, and no global middleware answered.
UnknownMethodPassedGlobals ==
    /\ last # NoDispatch
    /\ last.request.method \notin HttpMethodSet \cup {"OPTIONS"}
    /\ GlobalResponders = {}

\* C36: a request whose method is neither OPTIONS nor one of the five
\* registered methods is, once the global middlewares have run without
\* answering, answered by the not-found handler or the built-in 404; the
\* dispatch does not raise and calls no route middleware and no handler.
C36_UnknownMethodIsNotFound ==
    UnknownMethodPassedGlobals =>
        /\ IsResponse(last.response)
        /\ last.response = NotFoundAnswer
        /\ Calls(last.log, "global") = 1..Len(routers["S"].middlewares)
        /\ Cardinality(Calls(last.log, "notFound")) = 1
        /\ last.log[Len(last.log)] =
              Called("notFound", notFoundHandler, last.log[Len(last.log)].req)
        /\ Calls(last.log, "route") = {}
        /\ Calls(last.log, "handler") = {}

\* HEAD /a/static with a GET route registered under /a/static whose handler
\* would answer: the global middleware ran and the built-in 404 is the
\* result.
C36_Witness ==
    /\ UnknownMethodPassedGlobals
    /\ last.request = Request("HEAD", PathAStatic, EmptyRecord, VNull)
    /\ \E i \in 1..Len(routers["S"].routes["GET"]) :
          RouteMatches(routers["S"].routes["GET"][i].url, last.req.url)
    /\ Handlers \subseteq last.responders
    /\ routers["S"].middlewares # <<>>
    /\ last.response = Response404

-----------------------------------------------------------------------------
(* Router-level middlewares and the routes they apply to, under SpecMount.  *)

\* The middleware was called in the last dispatch, or the dispatch ended
\* before its turn on the response of a middleware called before it.
RanOrCutShort(mw) ==
    \/ \E k \in 1..Len(MiddlewaresIn(last.log)) : MiddlewaresIn(last.log)[k] = mw
    \/ \E k \in 1..Len(MiddlewaresIn(last.log)) :
          last.response = CallbackResponse(MiddlewaresIn(last.log)[k])

\* C32: a middleware a router R was given with R.use(mw) applies to every
\* route R holds when R is later served or mounted, whether the route was
\* registered on R, or mounted into R, before or after the use call: served,
\* every middleware of the server is run for the request; mounted, every
\* middleware R had at the mount is run for each route copied from R.  A
\* middleware is not run only when one run before it has answered.
C32_RouterMiddlewareApplies ==
    last # NoDispatch =>
        /\ \A i \in 1..Len(routers["S"].middlewares) :
              RanOrCutShort(routers["S"].middlewares[i])
        /\ \A e \in SelectedMounts :
              \A i \in 1..Len(e.mounted) : RanOrCutShort(e.mounted[i])

\* The server had no middleware when it mounted C and used g1 afterwards; C
\* had used c1 and c2 before it was mounted; the request to the copied
\* route, which has no middleware of its own, ran g1, c1 and c2.
C32_Witness ==
    /\ last # NoDispatch
    /\ routers["S"].middlewares = <<"g1">>
    /\ \E e \in SelectedMounts :
          /\ e.mounting = <<>>
          /\ e.mounted = <<"c1", "c2">>
          /\ e.own = <<>>
    /\ MiddlewaresIn(last.log) = <<"g1", "c1", "c2">>
    /\ last.response = CallbackResponse("h2")

-----------------------------------------------------------------------------
(* SpecString: StringHelper.generateRandomString, escapeHtml and            *)
(* unescapeHtml called on their own.                                        *)
(*                                                                          *)
(* A 32-bit unsigned integer is a record of its two 16-bit halves, so that  *)
(* 0xffffffff and the products with a length are computed at their width.   *)

\* The longest pattern given to generateRandomString.
MaxPattern == 2
\* The longest string given to escapeHtml.
MaxText == 4

Uint32(hi, lo) == [hi |-> hi, lo |-> lo]

\* The divisor of secureRandom, 0xffffffff.
Uint32Max == Uint32(65535, 65535)

\* What crypto.getRandomValues can put in the one-element Uint32Array: the
\* smallest and the largest value, the one before the largest, and values
\* in between.
RandomWords ==
    { Uint32(0, 0), Uint32(21845, 21845), Uint32(32768, 0),
      Uint32(65535, 65534), Uint32Max }

\* word * n, the upper half left to grow past 16 bits.
Times(word, n) ==
    [hi |-> word.hi * n + (word.lo * n) \div 65536, lo |-> (word.lo * n) % 65536]

AtMost(a, b) == a.hi < b.hi \/ (a.hi = b.hi /\ a.lo <= b.lo)

\* CryptoHelper.secureRandom(): the word divided by 0xffffffff, kept as the
\* fraction it is.
secureRandom(word) == [num |-> word, den |-> Uint32Max]

\* Math.floor(x * n) for a fraction x of [0, 1]: the largest k with
\* k * den <= num * n.  (For the lengths of the model the double the code
\* computes has the same floor.)
FloorTimes(x, n) ==
    CHOOSE k \in 0..n :
        /\ AtMost(Times(x.den, k), Times(x.num, n))
        /\ k < n => ~AtMost(Times(x.den, k + 1), Times(x.num, n))

\* chars[index]: the character, or undefined past the end.
CharAt(chars, index) ==
    IF index + 1 \in 1..Len(chars) THEN VString(<<chars[index + 1]>>) ELSE VUndefined

\* Array.prototype.join(""): undefined is rendered as the empty string.
RECURSIVE JoinValues(_)
JoinValues(values) ==
    IF values = <<>> THEN <<>>
    ELSE (IF values[1] = VUndefined THEN <<>> ELSE values[1].s)
         \o JoinValues(Tail(values))

\* StringHelper.generateRandomString(pattern, chars), words[i] being what
\* getRandomValues gives for the i-th character of the pattern.
generateRandomString(pattern, chars, words) ==
    JoinValues([i \in 1..Len(pattern) |->
        IF pattern[i] = "X"
        THEN CharAt(chars, FloorTimes(secureRandom(words[i]), Len(chars)))
        ELSE VString(<<pattern[i]>>)])

htmlEscapes ==
    << <<"&", <<"&", "a", "m", "p", ";">> >>,
       <<"<", <<"&", "l", "t", ";">> >>,
       <<">", <<"&", "g", "t", ";">> >>,
       <<"\"", <<"&", "q", "u", "o", "t", ";">> >>,
       <<"'", <<"&", "#", "3", "9", ";">> >> >>

\* String.prototype.replaceAll(search, replacement) for a non-empty search
\* string and a replacement without "$": every occurrence, from the left,
\* none overlapping another.
RECURSIVE ReplaceAllFrom(_, _, _, _)
ReplaceAllFrom(str, search, replacement, i) ==
    IF i > Len(str) THEN <<>>
    ELSE IF /\ i + Len(search) - 1 <= Len(str)
            /\ SubSeq(str, i, i + Len(search) - 1) = search
         THEN replacement \o ReplaceAllFrom(str, search, replacement, i + Len(search))
         ELSE <<str[i]>> \o ReplaceAllFrom(str, search, replacement, i + 1)

replaceAll(str, search, replacement) == ReplaceAllFrom(str, search, replacement, 1)

\* htmlEscapes.reduce((result, [char, entity]) => result.replaceAll(char, entity), str)
RECURSIVE EscapeFrom(_, _)
EscapeFrom(result, k) ==
    IF k > Len(htmlEscapes) THEN result
    ELSE EscapeFrom(replaceAll(result, <<htmlEscapes[k][1]>>, htmlEscapes[k][2]), k + 1)

escapeHtml(str) == EscapeFrom(str, 1)

\* htmlEscapes.reduce((result, [char, entity]) => result.replaceAll(entity, char), str)
RECURSIVE UnescapeFrom(_, _)
UnescapeFrom(result, k) ==
    IF k > Len(htmlEscapes) THEN result
    ELSE UnescapeFrom(replaceAll(result, htmlEscapes[k][2], <<htmlEscapes[k][1]>>), k + 1)

unescapeHtml(str) == UnescapeFrom(str, 1)

RandomPatterns == StrsOver({"X", "-"}, MaxPattern)
CharSets == { <<"A">>, <<"A", "B">>, <<"A", "B", "C">> }
Texts == StrsOver({"&", "<", "l", "t", ";", "a"}, MaxText)

\* StringHelper.generateRandomString(pattern, chars) called.
GenerateRandomString(pattern, chars, words) ==
    /\ last = NoDispatch
    /\ last' = [op |-> "generateRandomString", pattern |-> pattern, chars |-> chars,
                words |-> words,
                result |-> generateRandomString(pattern, chars, words)]
    /\ UNCHANGED <<routers, notFoundHandler, listening, lastCall, mountLog, matchVars, inFlight>>

\* StringHelper.unescapeHtml(StringHelper.escapeHtml(str)) called.
EscapeThenUnescape(str) ==
    /\ last = NoDispatch
    /\ last' = [op |-> "escapeHtml", str |-> str, escaped |-> escapeHtml(str),
                result |-> unescapeHtml(escapeHtml(str))]
    /\ UNCHANGED <<routers, notFoundHandler, listening, lastCall, mountLog, matchVars, inFlight>>

NextString ==
    \/ \E pattern \in RandomPatterns, chars \in CharSets :
          \E words \in [1..Len(pattern) -> RandomWords] :
              GenerateRandomString(pattern, chars, words)
    \/ \E str \in Texts : EscapeThenUnescape(str)

SpecString == Init /\ [][NextString]_vars

\* C37 as stated: the result has the length of the pattern, every character
\* of the pattern other than "X" stands where it stood, and every "X" has
\* become one character of the character set, for every word the random
\* source can give.
C37_RandomStringAsClaimed ==
    LastWas("generateRandomString") =>
        /\ Len(last.result) = Len(last.pattern)
        /\ \A i \in 1..Len(last.pattern) :
              IF last.pattern[i] = "X"
              THEN \E j \in 1..Len(last.chars) : last.result[i] = last.chars[j]
              ELSE last.result[i] = last.pattern[i]

\* The same for the calls in which the random source never gave
\* 0xffffffff for an "X".
RandomStringBelowOne ==
    (/\ LastWas("generateRandomString")
     /\ \A i \in 1..Len(last.pattern) :
           last.pattern[i] = "X" => last.words[i] # Uint32Max) =>
        /\ Len(last.result) = Len(last.pattern)
        /\ \A i \in 1..Len(last.pattern) :
              IF last.pattern[i] = "X"
              THEN \E j \in 1..Len(last.chars) : last.result[i] = last.chars[j]
              ELSE last.result[i] = last.pattern[i]

\* An "X" for which the random source gave 0xffffffff has left nothing in
\* the result.
RandomStringShorter ==
    /\ LastWas("generateRandomString")
    /\ last.pattern = <<"X", "-">>
    /\ last.words[1] = Uint32Max
    /\ last.result = <<"-">>

\* C38 as stated: unescapeHtml gives back the string escapeHtml was given.
C38_RoundTripAsClaimed ==
    LastWas("escapeHtml") => last.result = last.str

\* The string holds the entity somewhere.
Holds(str, entity) ==
    \E i \in 1..Len(str) :
        /\ i + Len(entity) - 1 <= Len(str)
        /\ SubSeq(str, i, i + Len(entity) - 1) = entity

\* The round trip gives the string back when the string holds none of the
\* entities of "<", ">", the double and the single quote.
RoundTripWithoutEntities ==
    (/\ LastWas("escapeHtml")
     /\ \A k \in 2..Len(htmlEscapes) : ~Holds(last.str, htmlEscapes[k][2])) =>
        last.result = last.str

\* "&lt;" is escaped to "&amp;lt;" and comes back as "<".
RoundTripLosesEntity ==
    /\ LastWas("escapeHtml")
    /\ last.str = <<"&", "l", "t", ";">>
    /\ last.escaped = <<"&", "a", "m", "p", ";", "l", "t", ";">>
    /\ last.result = <<"<">>

=============================================================================
